---- MODULE Spec2Model ----
(***************************************************************************)
(* A model of the realtime voice-synthesis session of                      *)
(* src/lib/voice/generate-voice-line.ts (generateVoiceWithQwenRealtimeTTS) *)
(* together with the audio container helpers it calls.                     *)
(*                                                                         *)
(* Representation of values:                                               *)
(*   - a byte buffer is a sequence of integers 0..255;                     *)
(*   - a JavaScript string is a sequence of tokens (TLA+ strings); the     *)
(*     token " " is whitespace, every other token is non-blank text; a     *)
(*     base64 payload is written one character per token;                  *)
(*   - a JSON field is a record [isString, chars]: isString = FALSE stands *)
(*     for a field that is absent or holds a non-string value;             *)
(*   - null and the empty string are both the empty sequence: the code     *)
(*     only ever tests the result of readOptionalString for truthiness.    *)
(***************************************************************************)
EXTENDS Integers, Sequences, FiniteSets, TLC

\* ------------------------------------------------------------------ bounds

\* Number of inbound frames one session is fed.
MaxMessages == 3
InlineBytes == 2000
FirstDeltaBytes == 4800
SecondDeltaBytes == 3200
MaxTail == 2
MaxCalls == 2

attempts == 5
backoffDelay == 2000

\* ------------------------------------------------------- program constants

timeoutMs == 45000
sampleRate == 24000
CloseNormal == 1000
CloseInternalError == 1011

\* ------------------------------------------------------------ plain values

null == << >>

Absent == [isString |-> FALSE, chars |-> << >>]

Str(chars) == [isString |-> TRUE, chars |-> chars]

RECURSIVE TrimStart(_)
TrimStart(chars) ==
    IF chars # << >> /\ Head(chars) = " " THEN TrimStart(Tail(chars)) ELSE chars

RECURSIVE TrimEnd(_)
TrimEnd(chars) ==
    IF chars # << >> /\ chars[Len(chars)] = " "
    THEN TrimEnd(SubSeq(chars, 1, Len(chars) - 1))
    ELSE chars

\* String.prototype.trim
Trim(chars) == TrimEnd(TrimStart(chars))

\* readOptionalString: null unless the value is a string that is non-empty
\* after trimming; otherwise the trimmed string.
readOptionalString(value) ==
    IF ~value.isString THEN null ELSE Trim(value.chars)

\* Math.round of the non-negative rational num / den (den > 0).
RoundDiv(num, den) == (2 * num + den) \div (2 * den)

RECURSIVE Concat(_)
\* Buffer.concat
Concat(chunks) ==
    IF chunks = << >> THEN << >> ELSE Head(chunks) \o Concat(Tail(chunks))

\* ----------------------------------------------------------------- base64

B64Alphabet ==
    << "A","B","C","D","E","F","G","H","I","J","K","L","M","N","O","P",
       "Q","R","S","T","U","V","W","X","Y","Z","a","b","c","d","e","f",
       "g","h","i","j","k","l","m","n","o","p","q","r","s","t","u","v",
       "w","x","y","z","0","1","2","3","4","5","6","7","8","9","+","/" >>

\* The sextet of a base64 character; 64 for a character outside the alphabet.
unbase64(c) ==
    IF \E i \in 1..Len(B64Alphabet) : B64Alphabet[i] = c
    THEN (CHOOSE i \in 1..Len(B64Alphabet) : B64Alphabet[i] = c) - 1
    ELSE IF c = "-" THEN 62
    ELSE IF c = "_" THEN 63
    ELSE 64

\* The legal sextets of a string up to its first "=": characters outside the
\* alphabet are skipped, padding stops the decoding.
B64Sextets(chars) ==
    LET stop == IF \E i \in 1..Len(chars) : chars[i] = "="
                THEN CHOOSE i \in 1..Len(chars) :
                        chars[i] = "=" /\ \A j \in 1..(i - 1) : chars[j] # "="
                ELSE Len(chars) + 1
        legal == SelectSeq(SubSeq(chars, 1, stop - 1), LAMBDA c : unbase64(c) < 64)
    IN  [k \in 1..Len(legal) |-> unbase64(legal[k])]

\* Four sextets make three bytes; a last group of two or three sextets makes
\* one or two bytes, a lone last sextet none.
B64Bytes(sx) ==
    LET n == (Len(sx) \div 4) * 3
             + (IF Len(sx) % 4 = 0 THEN 0 ELSE (Len(sx) % 4) - 1)
    IN  [k \in 1..n |->
           LET g == 4 * ((k - 1) \div 3) IN
           IF (k - 1) % 3 = 0 THEN sx[g + 1] * 4 + sx[g + 2] \div 16
           ELSE IF (k - 1) % 3 = 1 THEN (sx[g + 2] % 16) * 16 + sx[g + 3] \div 4
           ELSE (sx[g + 3] % 4) * 64 + sx[g + 4]]

\* Buffer.from(string, 'base64'): never throws.
Base64Decode(chars) == B64Bytes(B64Sextets(chars))

\* -------------------------------------------------- audio container module

\* buffer.slice(offset, offset + 4).toString('ascii') === tag, tag given by
\* its four character codes; 'ascii' decoding drops the high bit of a byte.
AsciiAt(buffer, offset, tag) ==
    /\ Len(buffer) >= offset + 4
    /\ \A i \in 1..4 : buffer[offset + i] % 128 = tag[i]

TagRIFF == << 82, 73, 70, 70 >>
TagWAVE == << 87, 65, 86, 69 >>
TagFmt  == << 102, 109, 116, 32 >>
TagData == << 100, 97, 116, 97 >>

\* writeUInt32LE / writeUInt16LE
U32LE(v) == << v % 256, (v \div 256) % 256, (v \div 65536) % 256, (v \div 16777216) % 256 >>
U16LE(v) == << v % 256, (v \div 256) % 256 >>

\* buffer.readUInt32LE(offset), for offset + 4 <= Len(buffer)
readUInt32LE(buffer, offset) ==
    buffer[offset + 1] + 256 * buffer[offset + 2]
      + 65536 * buffer[offset + 3] + 16777216 * buffer[offset + 4]

isWavBuffer(buffer) ==
    IF Len(buffer) < 12 THEN FALSE
    ELSE AsciiAt(buffer, 0, TagRIFF) /\ AsciiAt(buffer, 8, TagWAVE)

\* The header of a two-channel stream.
wrapPcm16MonoToWav_Stereo(pcm, rate) ==
    LET channels == 2
        bitsPerSample == 16
        blockAlign == (channels * bitsPerSample) \div 8
        byteRate == rate * blockAlign
    IN  TagRIFF \o U32LE(36 + Len(pcm)) \o TagWAVE
        \o TagFmt \o U32LE(16) \o U16LE(1) \o U16LE(channels)
        \o U32LE(rate) \o U32LE(byteRate) \o U16LE(blockAlign) \o U16LE(bitsPerSample)
        \o TagData \o U32LE(Len(pcm))
        \o pcm

wrapPcm16MonoToWav(pcm, rate) ==
    LET channels == 1
        bitsPerSample == 16
        blockAlign == (channels * bitsPerSample) \div 8
        byteRate == rate * blockAlign
    IN  TagRIFF \o U32LE(36 + Len(pcm)) \o TagWAVE
        \o TagFmt \o U32LE(16) \o U16LE(1) \o U16LE(channels)
        \o U32LE(rate) \o U32LE(byteRate) \o U16LE(blockAlign) \o U16LE(bitsPerSample)
        \o TagData \o U32LE(Len(pcm))
        \o pcm

normalizeQwenAudioToWav(rawAudio, rate) ==
    IF isWavBuffer(rawAudio) THEN rawAudio ELSE wrapPcm16MonoToWav(rawAudio, rate)

\* The heuristic used whenever the header cannot be used.
FallbackDuration(buffer) == RoundDiv(Len(buffer) * 8, 128)

RECURSIVE FindDataSize(_, _)
\* The while loop of getWavDurationFromBuffer from `offset` on: the size field
\* of the first "data" chunk, 0 when the loop ends without one.  The loop
\* condition offset < length - 8 keeps every read inside the buffer.
FindDataSize(buffer, offset) ==
    IF ~(offset < Len(buffer) - 8) THEN 0
    ELSE LET chunkSize == readUInt32LE(buffer, offset + 4) IN
         IF AsciiAt(buffer, offset, TagData) THEN chunkSize
         ELSE FindDataSize(buffer, offset + 8 + chunkSize)

getWavDurationFromBuffer(buffer) ==
    IF ~AsciiAt(buffer, 0, TagRIFF) THEN FallbackDuration(buffer)
    ELSE IF Len(buffer) < 32 THEN FallbackDuration(buffer)  \* readUInt32LE(28) throws
    ELSE LET byteRate == readUInt32LE(buffer, 28)
             dataSize == FindDataSize(buffer, 12)
         IN  IF dataSize > 0 /\ byteRate > 0
             THEN RoundDiv(dataSize * 1000, byteRate)
             ELSE FallbackDuration(buffer)

\* The buffer with `bytes` written over it from `offset` on.
Patch(buffer, offset, bytes) ==
    [i \in 1..Len(buffer) |->
        IF i > offset /\ i <= offset + Len(bytes) THEN bytes[i - offset] ELSE buffer[i]]

\* A 48-byte WAV of four bytes of samples.
SmallWav == wrapPcm16MonoToWav(<< 1, 2, 3, 4 >>, sampleRate)

\* Buffers that reach the header parsing of getWavDurationFromBuffer: a WAV
\* with another form type, with tags whose high bit is set, with a zero byte
\* rate, without a data chunk, with an empty or an overstated data chunk, with
\* a chunk before the data chunk, and cut short.
HeaderBuffers ==
    { Patch(SmallWav, 8, << 65, 86, 73, 32 >>),
      Patch(SmallWav, 0, << 210, 201, 198, 198 >>),
      Patch(SmallWav, 36, << 228, 225, 244, 225 >>),
      Patch(SmallWav, 28, << 0, 0, 0, 0 >>),
      Patch(SmallWav, 36, << 76, 73, 83, 84 >>),
      Patch(SmallWav, 40, << 0, 0, 0, 0 >>),
      Patch(SmallWav, 40, << 232, 3, 0, 0 >>),
      Patch(SmallWav, 16, << 0, 0, 0, 0 >>),
      SubSeq(SmallWav, 1, 36) \o << 76, 73, 83, 84 >> \o U32LE(2) \o << 9, 9 >>
         \o TagData \o U32LE(4) \o << 1, 2, 3, 4 >>,
      SubSeq(SmallWav, 1, 30),
      SubSeq(SmallWav, 1, 40),
      SubSeq(SmallWav, 1, 44),
      SubSeq(SmallWav, 1, 45) }

\* Byte sequences to try as audio: every choice of the first four bytes, the
\* size field, the form type and a tail, then buffers too short to hold the
\* twelve bytes, and a buffer wrapPcm16MonoToWav made.
RiffTags == { TagRIFF, << 210, 201, 198, 198 >>, << 82, 201, 70, 70 >>,
              << 82, 73, 70, 88 >>, << 0, 0, 0, 0 >> }

SizeFields == { << 0, 0, 0, 0 >>, << 36, 0, 0, 0 >> }

FormTags == { TagWAVE, << 215, 193, 214, 197 >>, << 65, 86, 73, 32 >> }

Tails == UNION { [1..n -> { 0, 200 }] : n \in 0..MaxTail }

Buffers ==
    { r \o s \o f \o tail : r \in RiffTags, s \in SizeFields, f \in FormTags, tail \in Tails }
    \cup { << >>, << 7 >>, TagRIFF, TagRIFF \o << 0, 0, 0, 0 >> \o << 87, 65, 86 >>,
           wrapPcm16MonoToWav(<< 1, 2, 3, 4 >>, sampleRate) }
    \cup HeaderBuffers


SampleRates == { sampleRate, 16000 }

\* A caller holding `buffer`, after the calls `calls`; `input` is the buffer it
\* started from and `before` the buffer given to the last call.
Wav(input, rate, buffer, before, calls) ==
    [input |-> input, rate |-> rate, buffer |-> buffer, before |-> before, calls |-> calls,
     duration |-> 0]

NoWav == Wav(<< >>, sampleRate, << >>, << >>, << >>)

\* ------------------------------------------------------- job dispatcher

IMAGE_TYPES ==
    { "IMAGE_PANEL", "IMAGE_CHARACTER", "IMAGE_LOCATION", "PANEL_VARIANT",
      "MODIFY_ASSET_IMAGE", "REGENERATE_GROUP", "ASSET_HUB_IMAGE", "ASSET_HUB_MODIFY" }

VIDEO_TYPES == { "VIDEO_PANEL", "LIP_SYNC" }

VOICE_TYPES == { "VOICE_LINE", "VOICE_DESIGN", "ASSET_HUB_VOICE_DESIGN" }

\* A kind of the enumeration that is in none of the three sets, and a value
\* that is no kind of the enumeration at all.
UnlistedTypes == { "STORY_TO_SCRIPT", "NO_SUCH_KIND" }

TaskTypes == IMAGE_TYPES \cup VIDEO_TYPES \cup VOICE_TYPES \cup UnlistedTypes

\* One or two kinds of each queue.
SubmitTypes == { "IMAGE_PANEL", "VOICE_LINE" }

QUEUE_NAME ==
    [IMAGE |-> "waoowaoo-image", VIDEO |-> "waoowaoo-video",
     VOICE |-> "waoowaoo-voice", TEXT |-> "waoowaoo-text"]

\* The queues, each named by its queue name.
imageQueue == QUEUE_NAME.IMAGE
videoQueue == QUEUE_NAME.VIDEO
voiceQueue == QUEUE_NAME.VOICE
textQueue == QUEUE_NAME.TEXT

ALL_QUEUES == << imageQueue, videoQueue, voiceQueue, textQueue >>

QueueNames == { ALL_QUEUES[i] : i \in 1..Len(ALL_QUEUES) }

\* The classification with the voice-design kinds left out of the voice test.
getQueueTypeByTaskType_LineOnly(type) ==
    IF type \in IMAGE_TYPES THEN "image"
    ELSE IF type \in VIDEO_TYPES THEN "video"
    ELSE IF type = "VOICE_LINE" THEN "voice"
    ELSE "text"

getQueueTypeByTaskType(type) ==
    IF type \in IMAGE_TYPES THEN "image"
    ELSE IF type \in VIDEO_TYPES THEN "video"
    ELSE IF type \in VOICE_TYPES THEN "voice"
    ELSE "text"

getQueueByType(type) ==
    CASE type = "image" -> imageQueue
      [] type = "video" -> videoQueue
      [] type = "voice" -> voiceQueue
      [] OTHER -> textQueue

TaskIds == { "t1", "t2" }

DedupeKeys == { "voice_line:l1", "voice_line:l2" }

\* TaskJobData, as far as the dispatcher reads it.
TaskJobData(taskId, type, dedupeKey) ==
    [taskId |-> taskId, type |-> type, dedupeKey |-> dedupeKey]

\* JobsOptions of a call: the keys it may carry.
JobsOptions(hasJobId, jobId, hasPriority, priority) ==
    [hasJobId |-> hasJobId, jobId |-> jobId, hasPriority |-> hasPriority, priority |-> priority]

NoOpts == JobsOptions(FALSE, "", FALSE, 0)

\* A job of a queue: waiting, delayed (with the ms left of its backoff),
\* active, completed, failed; "none" where the queue holds no job of that id.
Job(state, name, data, priority, attemptsMade, started, delay, left) ==
    [state |-> state, name |-> name, data |-> data, priority |-> priority,
     attemptsMade |-> attemptsMade, started |-> started, delay |-> delay, left |-> left]

NoJob == Job("none", "", TaskJobData("", "", ""), 0, 0, 0, 0, 0)

\* The answer of the last call made to the dispatcher.
\* A call of the dispatcher: its argument, what it returned and, for
\* addTaskJob, the options of the caller.
CallWith(op, arg, value, opts) == [op |-> op, arg |-> arg, value |-> value, opts |-> opts]

Call(op, arg, value) == CallWith(op, arg, value, NoOpts)

NoCall == Call("", "", "")

Mq(kinds, jobs, used, call) == [kinds |-> kinds, jobs |-> jobs, used |-> used, call |-> call]

NoMq == Mq({}, [q \in QueueNames |-> [id \in TaskIds |-> NoJob]], {}, NoCall)

\* The pools and the job in a worker, when none is modelled.
NoPool == [env |-> << >>, waiting |-> << >>, active |-> << >>]

NoRun == [pc |-> "none"]

\* ------------------------------------------------------ streaming session

NoConn == [pc |-> "none"]

NoUi == [pc |-> "none"]

NoCfg == [pc |-> "none"]

VARIABLES
    conn,                \* the broker connection: the process-wide holder and what was built on it
    ui,                  \* the voice-generation hook: its submitting set and the submissions under way
    cfg,                 \* one voice id and model configuration and what the voice functions made of it
    mq,                  \* the dispatcher: the jobs of the four queues and the last call made
    pool,                \* the worker pools: jobs waiting and in flight per queue
    run,                 \* one job in a worker: where its processor stands and what it did
    wav,                 \* a caller of the audio container functions: its buffer and calls
    params,              \* the params of the call: [modelId, voiceId, text]
    transport,           \* the function generateVoiceWithQwenTTS called: none, realtime, http
    pc,                  \* where the call stands: start, session, post, download, returned
    io,                  \* the connections and requests started, in order
    response,            \* the reply to the synthesis request
    audioResponse,       \* the reply to the download of the audio URL
    settled,             \* let settled
    hasResponseDone,     \* let hasResponseDone
    hasSessionFinished,  \* let hasSessionFinished
    audioChunks,         \* const audioChunks: Buffer[]
    timeoutId,           \* the session timer: "armed" or "cleared"
    readyState,          \* the socket: CONNECTING, OPEN, CLOSING, CLOSED
    sent,                \* the events handed to ws.send that did not throw
    closeCalls,          \* the codes ws.close was called with, in call order
    outcome,             \* the promise: pending, resolved or rejected
    resolveCalls,        \* how many times resolve(...) was called
    rejectCalls,         \* how many times reject(...) was called
    nRecv,               \* history: number of 'message' events delivered
    last,                \* history: the event handled by the last step
    deltaLog,            \* history: payloads of the well-formed deltas, in arrival order
    deltaLogAtSettle,    \* history: deltaLog at the step that settled the session
    settledBy,           \* history: the step that settled the session
    seenDoneCompleted    \* history: a response.done with status completed was delivered

vars == << mq, pool, run, conn, ui, cfg, wav, params, transport, pc, io, response, audioResponse, settled, hasResponseDone, hasSessionFinished, audioChunks,
           timeoutId, readyState, sent, closeCalls, outcome, resolveCalls,
           rejectCalls, nRecv, last, deltaLog, deltaLogAtSettle, settledBy,
           seenDoneCompleted >>

Err(code, detail) == [code |-> code, detail |-> detail]

NoError == Err("", << >>)

Pending == [kind |-> "pending", audioData |-> << >>, audioDuration |-> 0, error |-> NoError]

\* The session's own state, as one record the handlers transform.
S == [ settled |-> settled, hasResponseDone |-> hasResponseDone,
       hasSessionFinished |-> hasSessionFinished, audioChunks |-> audioChunks,
       timeoutId |-> timeoutId, readyState |-> readyState, sent |-> sent,
       closeCalls |-> closeCalls, outcome |-> outcome,
       resolveCalls |-> resolveCalls, rejectCalls |-> rejectCalls ]

Commit(s) ==
    /\ settled' = s.settled
    /\ hasResponseDone' = s.hasResponseDone
    /\ hasSessionFinished' = s.hasSessionFinished
    /\ audioChunks' = s.audioChunks
    /\ timeoutId' = s.timeoutId
    /\ readyState' = s.readyState
    /\ sent' = s.sent
    /\ closeCalls' = s.closeCalls
    /\ outcome' = s.outcome
    /\ resolveCalls' = s.resolveCalls
    /\ rejectCalls' = s.rejectCalls

\* resolve(value) of the promise: only the first resolve or reject decides.
resolve(s, audioData, audioDuration) ==
    [s EXCEPT !.resolveCalls = @ + 1,
              !.outcome = IF @.kind = "pending"
                          THEN [kind |-> "resolved", audioData |-> audioData,
                                audioDuration |-> audioDuration, error |-> NoError]
                          ELSE @]

\* reject(error) of the promise.
reject(s, error) ==
    [s EXCEPT !.rejectCalls = @ + 1,
              !.outcome = IF @.kind = "pending"
                          THEN [kind |-> "rejected", audioData |-> << >>,
                                audioDuration |-> 0, error |-> error]
                          ELSE @]

\* clearTimeout(timeoutId)
clearTimeout(s) == [s EXCEPT !.timeoutId = "cleared"]

\* ws.close(code): starts the closing handshake of a socket not yet closing.
wsClose(s, code) ==
    [s EXCEPT !.closeCalls = Append(@, code),
              !.readyState = IF @ \in {"CONNECTING", "OPEN"} THEN "CLOSING" ELSE @]

\* fail without its `if (settled) return` guard.
fail_Unguarded(s, error) ==
    reject(wsClose(clearTimeout([s EXCEPT !.settled = TRUE]), CloseInternalError), error)

fail(s, error) ==
    IF s.settled THEN s
    ELSE reject(wsClose(clearTimeout([s EXCEPT !.settled = TRUE]), CloseInternalError), error)

\* finish without its empty-audio check.
finish_NoEmptyCheck(s) ==
    IF s.settled THEN s
    ELSE LET s1 == clearTimeout([s EXCEPT !.settled = TRUE])
             rawAudio == Concat(s1.audioChunks)
             wavAudio == normalizeQwenAudioToWav(rawAudio, sampleRate)
         IN  wsClose(resolve(s1, wavAudio, getWavDurationFromBuffer(wavAudio)),
                     CloseNormal)

finish(s) ==
    IF s.settled THEN s
    ELSE LET s1 == clearTimeout([s EXCEPT !.settled = TRUE]) IN
         IF Len(s1.audioChunks) = 0
         THEN reject(s1, Err("QWEN_TTS_INVALID_RESPONSE", << "missing response.audio.delta" >>))
         ELSE LET rawAudio == Concat(s1.audioChunks)
                  wavAudio == normalizeQwenAudioToWav(rawAudio, sampleRate)
              IN  wsClose(resolve(s1, wavAudio, getWavDurationFromBuffer(wavAudio)),
                          CloseNormal)

\* The timer callback calling finish in place of fail.
OnTimeout_Finish(s) == finish(s)

\* The timer callback.
OnTimeout(s) == fail(s, Err("QWEN_TTS_TIMEOUT", << timeoutMs >>))

\* buildRealtimeEvent(type, payload), without its event_id.
buildRealtimeEvent(type, body) == [type |-> type, body |-> body]

\* The 'open' handler with session.finish sent before the commit.
OpenEvents_FinishBeforeCommit(p) ==
    << buildRealtimeEvent("session.update",
                          << p.voiceId, "server_commit", "pcm", sampleRate >>),
       buildRealtimeEvent("input_text_buffer.append", << p.text >>),
       buildRealtimeEvent("session.finish", << >>),
       buildRealtimeEvent("input_text_buffer.commit", << >>) >>

\* The four events of the 'open' handler, in the order it sends them.
OpenEvents(p) ==
    << buildRealtimeEvent("session.update",
                          << p.voiceId, "server_commit", "pcm", sampleRate >>),
       buildRealtimeEvent("input_text_buffer.append", << p.text >>),
       buildRealtimeEvent("input_text_buffer.commit", << >>),
       buildRealtimeEvent("session.finish", << >>) >>

\* ws.on('open'): failAt = 0 when no send throws, else the index of the
\* ws.send call that throws.
OnOpen(s, p, failAt) ==
    IF failAt = 0
    THEN [s EXCEPT !.sent = @ \o OpenEvents(p)]
    ELSE fail([s EXCEPT !.sent = @ \o SubSeq(OpenEvents(p), 1, failAt - 1)],
              Err("QWEN_TTS_WS_SEND_FAILED", << "send error" >>))

\* The error branch missing: the event is passed over like an unknown type.
OnErrorEvent_Ignored(s, data, messageText) == s

\* eventType === 'error'
OnErrorEvent(s, data, messageText) ==
    LET code == readOptionalString(data.code)
        message == readOptionalString(data.message)
    IN  fail(s, Err("QWEN_TTS_FAILED_WS",
                    IF message # null THEN message
                    ELSE IF code # null THEN code ELSE messageText))

\* The delta branch with unshift in place of push.
OnAudioDelta_Unshift(s, data) ==
    LET delta == readOptionalString(data.delta) IN
    IF delta = null
    THEN fail(s, Err("QWEN_TTS_INVALID_EVENT", << "response.audio.delta missing delta" >>))
    ELSE [s EXCEPT !.audioChunks = << Base64Decode(delta) >> \o @]

\* eventType === 'response.audio.delta'
OnAudioDelta(s, data) ==
    LET delta == readOptionalString(data.delta) IN
    IF delta = null
    THEN fail(s, Err("QWEN_TTS_INVALID_EVENT", << "response.audio.delta missing delta" >>))
    ELSE [s EXCEPT !.audioChunks = Append(@, Base64Decode(delta))]

\* The status test reduced to the literal 'error'.
IsFailureStatus_OnlyError(responseStatus) == responseStatus = << "error" >>

\* responseStatus && responseStatus !== 'completed'
IsFailureStatus(responseStatus) ==
    responseStatus # null /\ responseStatus # << "completed" >>

\* eventType === 'response.done'
OnResponseDone(s, data) ==
    LET s1 == [s EXCEPT !.hasResponseDone = TRUE]
        responseStatus == readOptionalString(data.status)
    IN  IF IsFailureStatus(responseStatus)
        THEN fail(s1, Err("QWEN_TTS_FAILED", responseStatus))
        ELSE IF s1.hasSessionFinished THEN finish(s1) ELSE s1

\* The completion test without `|| audioChunks.length > 0`.
SessionFinishedCompletes_DoneOnly(s) == s.hasResponseDone

\* The completion test always true: session.finished by itself completes.
SessionFinishedCompletes_Always(s) == TRUE

\* hasResponseDone || audioChunks.length > 0
SessionFinishedCompletes(s) == s.hasResponseDone \/ Len(s.audioChunks) > 0

\* The session.finished branch that only records the flag.
OnSessionFinished_FlagOnly(s) == [s EXCEPT !.hasSessionFinished = TRUE]

\* eventType === 'session.finished'
OnSessionFinished(s) ==
    LET s1 == [s EXCEPT !.hasSessionFinished = TRUE] IN
    IF SessionFinishedCompletes(s1) THEN finish(s1) ELSE s1

\* decodeWsMessageToText: the text of a string, a Buffer, an ArrayBuffer, a
\* view or an array of those; the empty string for anything else, an array
\* holding some other item included.
decodeWsMessageToText(data) ==
    IF data.shape \in { "string", "Buffer", "ArrayBuffer", "view", "array" }
    THEN data.raw
    ELSE << >>

\* The dispatch with a final else that rejects the unknown type.
DispatchEvent_UnknownFails(s, data, messageText, eventType) ==
    IF eventType = << "error" >> THEN OnErrorEvent(s, data, messageText)
    ELSE IF eventType = << "response.audio.delta" >> THEN OnAudioDelta(s, data)
    ELSE IF eventType = << "response.done" >> THEN OnResponseDone(s, data)
    ELSE IF eventType = << "session.finished" >> THEN OnSessionFinished(s)
    ELSE fail(s, Err("QWEN_TTS_INVALID_EVENT", eventType))

\* ws.on('message'), from the first test of eventType on.
DispatchEvent(s, data, messageText, eventType) ==
    IF eventType = << "error" >> THEN OnErrorEvent(s, data, messageText)
    ELSE IF eventType = << "response.audio.delta" >> THEN OnAudioDelta(s, data)
    ELSE IF eventType = << "response.done" >> THEN OnResponseDone(s, data)
    ELSE IF eventType = << "session.finished" >> THEN OnSessionFinished(s)
    ELSE s

\* The message handler without its `if (!eventType)` test.
OnMessage_NoTypeCheck(s, data) ==
    LET messageText == Trim(decodeWsMessageToText(data)) IN
    IF messageText = << >> THEN s
    ELSE IF data.parsed = "SyntaxError"
    THEN fail(s, Err("QWEN_TTS_INVALID_EVENT", messageText))
    ELSE IF data.parsed # "record"
    THEN fail(s, Err("QWEN_TTS_INVALID_EVENT", << "event payload is not object" >>))
    ELSE DispatchEvent(s, data, messageText, readOptionalString(data.type))

\* ws.on('message')
OnMessage(s, data) ==
    LET messageText == Trim(decodeWsMessageToText(data)) IN
    IF messageText = << >> THEN s
    ELSE IF data.parsed = "SyntaxError"
    THEN fail(s, Err("QWEN_TTS_INVALID_EVENT", messageText))
    ELSE IF data.parsed # "record"
    THEN fail(s, Err("QWEN_TTS_INVALID_EVENT", << "event payload is not object" >>))
    ELSE LET eventType == readOptionalString(data.type) IN
         IF eventType = null
         THEN fail(s, Err("QWEN_TTS_INVALID_EVENT", << "missing type" >>))
         ELSE DispatchEvent(s, data, messageText, eventType)

\* ws.on('error')
OnSocketError(s, message) == fail(s, Err("QWEN_TTS_WS_ERROR", message))

\* The late-close test without the completion flags.
CloseIsLate_AudioOnly(s) == Len(s.audioChunks) > 0

\* audioChunks.length > 0 && (hasResponseDone || hasSessionFinished)
CloseIsLate(s) ==
    Len(s.audioChunks) > 0 /\ (s.hasResponseDone \/ s.hasSessionFinished)

\* ws.on('close')
OnClose(s, code, reason) ==
    IF s.settled THEN s
    ELSE LET reasonText == Trim(reason) IN
         IF CloseIsLate(s) THEN finish(s)
         ELSE fail(s, Err("QWEN_TTS_WS_CLOSED", << code, reasonText >>))

\* ------------------------------------------------------------ the inputs

\* An inbound frame: the kind of value the socket hands over, the text it
\* carries, what JSON.parse makes of that text, and, for a parsed object, the
\* fields the handler reads (response.status, error.code, error.message
\* flattened).
Frame(raw, parsed, type, delta, status, code, message) ==
    [shape |-> "string", raw |-> raw, parsed |-> parsed, type |-> type,
     delta |-> delta, status |-> status, code |-> code, message |-> message]

\* The frame handed over as another kind of value.
Shaped(shape, frame) == [frame EXCEPT !.shape = shape]

Event(name, type, delta, status, code, message) ==
    Frame(<< name >>, "record", type, delta, status, code, message)

NoFrame == Frame(<< >>, "none", Absent, Absent, Absent, Absent, Absent)

\* "QUJD": the bytes 65 66 67
DeltaABC == << "Q", "U", "J", "D" >>
\* " RA== ": the byte 68, with surrounding whitespace
DeltaD == << " ", "R", "A", "=", "=", " " >>
\* "!!": no base64 character at all, decodes to no byte
DeltaJunk == << "!", "!" >>
\* "UklGRgAAAABXQVZF": the 12 bytes RIFF 0 0 0 0 WAVE
DeltaRiff == << "U","k","l","G","R","g","A","A","A","A","B","X","Q","V","Z","F" >>

\* A base64 text of n bytes: the character c throughout, padded with "=" to
\* whole groups of four.
Base64Of(n, c) ==
    [i \in 1..(4 * ((n + 2) \div 3)) |-> IF i > (4 * n + 2) \div 3 THEN "=" ELSE c]

DeltaPayloads == { DeltaABC, DeltaD, DeltaJunk, DeltaRiff }

DeltaFrames ==
    { Event("delta", Str(<< "response.audio.delta" >>), Str(d), Absent, Absent, Absent)
        : d \in DeltaPayloads }
    \cup { Event("delta-missing", Str(<< "response.audio.delta" >>), Absent, Absent, Absent, Absent),
           Event("delta-blank", Str(<< "response.audio.delta" >>), Str(<< " " >>), Absent, Absent, Absent) }

DoneFrames ==
    { Shaped("Buffer", Event("done", Str(<< "response.done" >>), Absent, st, Absent, Absent))
        : st \in { Absent, Str(<< "completed" >>), Str(<< " ", "completed" >>),
                   Str(<< "failed" >>) } }

ErrorFrames ==
    { Shaped("ArrayBuffer", Event("error", Str(<< "error" >>), Absent, Absent, c, m))
        : c \in { Absent, Str(<< "InvalidParameter" >>) },
          m \in { Absent, Str(<< "voice not found" >>) } }

OtherFrames ==
    { Frame(<< " " >>, "none", Absent, Absent, Absent, Absent, Absent),
      Frame(<< "not json" >>, "SyntaxError", Absent, Absent, Absent, Absent, Absent),
      Frame(<< "42" >>, "number", Absent, Absent, Absent, Absent, Absent),
      Event("untyped", Absent, Absent, Absent, Absent, Absent),
      Shaped("array",
             Event("finished", Str(<< "session.finished" >>), Absent, Absent, Absent, Absent)),
      Shaped("view",
             Event("created", Str(<< "session.created" >>), Absent, Absent, Absent, Absent)),
      Shaped("array-mixed",
             Event("finished", Str(<< "session.finished" >>), Absent, Absent, Absent, Absent)) }

Frames == DeltaFrames \cup DoneFrames \cup ErrorFrames \cup OtherFrames

Texts == { << "Hello" >>, << "Hello", " ", "there" >> }

CloseEvents == { << 1000, << >> >>, << 1006, << "gone" >> >> }

\* "q-realtime"
RealtimeLower == << "q", "-", "r", "e", "a", "l", "t", "i", "m", "e" >>
\* "Q-RealTime-2"
RealtimeMixed == << "Q", "-", "R", "e", "a", "l", "T", "i", "m", "e", "-", "2" >>
\* "q-flash"
HttpFlash == << "q", "-", "f", "l", "a", "s", "h" >>
\* "q-real-time": the letters of the word, not the word
HttpRealDashTime == << "q", "-", "r", "e", "a", "l", "-", "t", "i", "m", "e" >>

ModelIds == { RealtimeLower, RealtimeMixed, HttpFlash, HttpRealDashTime }

\* What the environment can make of the set-up of a streaming session: it
\* works, the configured base URL does not parse, the ws module is unusable.
Setups == { "ok", "QWEN_TTS_REALTIME_BASE_URL_INVALID", "QWEN_TTS_WEBSOCKET_UNAVAILABLE" }

\* The reply to the synthesis request: whether fetch threw, the status, the
\* body text, what JSON.parse makes of it and, for an object, the fields read
\* (output and output.audio by their kind, the rest as JSON fields).
HttpResponse(status, rawResponse, parsed, message, code, output, audio, data, url, audio_url) ==
    [threw |-> FALSE, status |-> status, rawResponse |-> rawResponse,
     parsed |-> parsed, message |-> message, code |-> code, output |-> output,
     audio |-> audio, data |-> data, url |-> url, audio_url |-> audio_url]

\* A reply whose body is an object with an output object.
OutputResponse(name, status, audio, data, url, audio_url) ==
    HttpResponse(status, << name >>, "record", Absent, Absent, "record",
                 audio, data, url, audio_url)

NoResponse ==
    HttpResponse(0, << >>, "none", Absent, Absent, "absent", "absent", Absent, Absent, Absent)

FetchThrew == [NoResponse EXCEPT !.threw = TRUE]

\* base64 of InlineBytes bytes of silence
InlineRaw == Base64Of(InlineBytes, "A")

AudioUrl == << "https://", "cdn", "/a.wav" >>

FailureResponses ==
    { HttpResponse(500, << >>, "none", Absent, Absent, "absent", "absent", Absent, Absent, Absent),
      HttpResponse(429, << "Too", " ", "Many" >>, "SyntaxError", Absent, Absent,
                   "absent", "absent", Absent, Absent, Absent),
      HttpResponse(401, << "denied" >>, "record", Str(<< "bad", " ", "key" >>),
                   Str(<< "InvalidApiKey" >>), "absent", "absent", Absent, Absent, Absent),
      HttpResponse(403, << "coded" >>, "record", Str(<< " " >>),
                   Str(<< "AccessDenied" >>), "absent", "absent", Absent, Absent, Absent),
      OutputResponse("inline-400", 400, "record", Str(DeltaABC), Str(AudioUrl), Absent) }

InlineResponses ==
    { OutputResponse("inline", 200, "record", Str(d), Absent, Absent)
        : d \in { DeltaABC, DeltaD, DeltaJunk, DeltaRiff, InlineRaw } }
    \cup { OutputResponse("inline-and-url", 201, "record", Str(DeltaABC), Str(AudioUrl), Absent) }

UrlResponses ==
    { OutputResponse("url", 200, "record", Absent, Str(AudioUrl), Absent),
      OutputResponse("blank-data-url", 200, "record", Str(<< " " >>), Str(AudioUrl), Absent),
      OutputResponse("flat-url", 200, "absent", Absent, Absent, Str(AudioUrl)),
      OutputResponse("blank-url-flat-url", 200, "record", Absent, Str(<< " " >>), Str(AudioUrl)),
      OutputResponse("audio-string-flat-url", 200, "other", Absent, Absent, Str(AudioUrl)) }

EmptyResponses ==
    { HttpResponse(200, << >>, "none", Absent, Absent, "absent", "absent", Absent, Absent, Absent),
      HttpResponse(200, << "OK" >>, "SyntaxError", Absent, Absent,
                   "absent", "absent", Absent, Absent, Absent),
      HttpResponse(200, << "[]" >>, "other", Absent, Absent,
                   "absent", "absent", Absent, Absent, Absent),
      HttpResponse(200, << "{}" >>, "record", Absent, Absent,
                   "absent", "absent", Absent, Absent, Absent),
      HttpResponse(200, << "output-string" >>, "record", Absent, Absent,
                   "other", "absent", Absent, Absent, Absent),
      OutputResponse("no-audio", 200, "absent", Absent, Absent, Absent),
      OutputResponse("empty-audio", 200, "record", Absent, Absent, Absent),
      OutputResponse("blank-fields", 200, "record", Str(<< " " >>), Str(<< >>), Str(<< " " >>)),
      OutputResponse("audio-string", 200, "other", Absent, Absent, Absent) }

Responses ==
    { FetchThrew } \cup FailureResponses \cup InlineResponses \cup UrlResponses
    \cup EmptyResponses

\* The reply to the download: whether fetch or arrayBuffer() threw, the
\* status, the bytes of the body.
AudioResponse(status, bytes) == [threw |-> FALSE, status |-> status, bytes |-> bytes]

NoAudioResponse == AudioResponse(0, << >>)

AudioResponses ==
    { [NoAudioResponse EXCEPT !.threw = TRUE],
      AudioResponse(404, << 78, 111 >>),
      AudioResponse(503, << >>),
      AudioResponse(200, << >>),
      AudioResponse(200, << 1, 2, 3, 4 >>),
      AudioResponse(200, wrapPcm16MonoToWav(<< 1, 2, 3, 4 >>, sampleRate)) }

\* ----------------------------------------------------------- the machine

Step(h, data, failAt, code) == [h |-> h, data |-> data, failAt |-> failAt, code |-> code]

\* The state once the promise executor has run: socket created, timer armed.
Init ==
    /\ mq = NoMq
    /\ pool = NoPool
    /\ run = NoRun
    /\ conn = NoConn
    /\ ui = NoUi
    /\ cfg = NoCfg
    /\ wav = NoWav
    /\ params \in [modelId : { RealtimeLower }, voiceId : { "v1" }, text : Texts]
    /\ transport = "realtime"
    /\ pc = "session"
    /\ io = << "WebSocket" >>
    /\ response = NoResponse
    /\ audioResponse = NoAudioResponse
    /\ settled = FALSE
    /\ hasResponseDone = FALSE
    /\ hasSessionFinished = FALSE
    /\ audioChunks = << >>
    /\ timeoutId = "armed"
    /\ readyState = "CONNECTING"
    /\ sent = << >>
    /\ closeCalls = << >>
    /\ outcome = Pending
    /\ resolveCalls = 0
    /\ rejectCalls = 0
    /\ nRecv = 0
    /\ last = Step("init", NoFrame, 0, 0)
    /\ deltaLog = << >>
    /\ deltaLogAtSettle = << >>
    /\ settledBy = Step("none", NoFrame, 0, 0)
    /\ seenDoneCompleted = FALSE

\* A delivered frame that parses to an object whose type is `name`.
IsEvent(data, name) ==
    /\ Trim(decodeWsMessageToText(data)) # << >>
    /\ data.parsed = "record"
    /\ data.type.isString
    /\ Trim(data.type.chars) = << name >>

\* The field is a string that is not blank.
HasText(field) == field.isString /\ Trim(field.chars) # << >>

\* The history variables of a step whose handler leaves the session as s.
Record(s, step, log) ==
    /\ last' = step
    /\ deltaLog' = log
    /\ deltaLogAtSettle' = IF ~settled /\ s.settled THEN log ELSE deltaLogAtSettle
    /\ settledBy' = IF ~settled /\ s.settled THEN step ELSE settledBy
    /\ seenDoneCompleted' =
          \/ seenDoneCompleted
          \/ /\ step.h = "message"
             /\ IsEvent(step.data, "response.done")
             /\ HasText(step.data.status)
             /\ Trim(step.data.status.chars) = << "completed" >>
    /\ UNCHANGED << mq, pool, run, conn, ui, cfg, wav, params, transport, pc, io, response, audioResponse >>

\* The socket reports that the connection is established.
Open ==
    /\ readyState = "CONNECTING"
    /\ \E failAt \in 0..4 :
         LET s == OnOpen([S EXCEPT !.readyState = "OPEN"], params, failAt) IN
         /\ Commit(s)
         /\ Record(s, Step("open", NoFrame, failAt, 0), deltaLog)
    /\ UNCHANGED nRecv

\* The message handler runs on the frame `data`.
Deliver(data) ==
    LET s == OnMessage(S, data) IN
    /\ Commit(s)
    /\ Record(s, Step("message", data, 0, 0),
              IF IsEvent(data, "response.audio.delta") /\ HasText(data.delta)
              THEN Append(deltaLog, data.delta.chars)
              ELSE deltaLog)
    /\ nRecv' = nRecv + 1

\* The socket delivers one inbound frame.
Message ==
    /\ readyState \in { "OPEN", "CLOSING" }
    /\ nRecv < MaxMessages
    /\ \E data \in Frames : Deliver(data)

\* The socket reports a transport error; it closes afterwards.
SocketError ==
    /\ readyState # "CLOSED"
    /\ LET s == OnSocketError([S EXCEPT !.readyState = "CLOSING"], << "ECONNRESET" >>) IN
         /\ Commit(s)
         /\ Record(s, Step("error", NoFrame, 0, 0), deltaLog)
    /\ UNCHANGED nRecv

\* The socket reports that the connection is closed.
Close ==
    /\ readyState # "CLOSED"
    /\ \E ev \in CloseEvents :
         LET s == OnClose([S EXCEPT !.readyState = "CLOSED"], ev[1], ev[2]) IN
         /\ Commit(s)
         /\ Record(s, Step("close", NoFrame, 0, ev[1]), deltaLog)
    /\ UNCHANGED nRecv

\* The session timer expires.
Timeout ==
    /\ timeoutId = "armed"
    /\ LET s == OnTimeout(S) IN
         /\ Commit(s)
         /\ Record(s, Step("timeout", NoFrame, 0, 0), deltaLog)
    /\ UNCHANGED nRecv

Next == Open \/ Message \/ SocketError \/ Close \/ Timeout

Spec == Init /\ [][Next]_vars

\* The event loop runs the callback of an armed timer.
LiveSpec == Spec /\ WF_vars(Timeout)

\* The frames of one whole synthesis, in the order the server sends them: two
\* audio deltas, response.done with status completed, session.finished.
Script ==
    << Event("delta", Str(<< "response.audio.delta" >>),
             Str(Base64Of(FirstDeltaBytes, "A")), Absent, Absent, Absent),
       Event("delta", Str(<< "response.audio.delta" >>),
             Str(Base64Of(SecondDeltaBytes, "B")), Absent, Absent, Absent),
       Event("done", Str(<< "response.done" >>), Absent, Str(<< "completed" >>),
             Absent, Absent),
       Event("finished", Str(<< "session.finished" >>), Absent, Absent, Absent, Absent) >>

\* The socket delivers the next frame of the script.
ScriptMessage ==
    /\ readyState \in { "OPEN", "CLOSING" }
    /\ nRecv < Len(Script)
    /\ Deliver(Script[nRecv + 1])

\* The session against a server that follows the script; the socket and the
\* timer stay free to fail at any point.
ScriptNext == Open \/ ScriptMessage \/ SocketError \/ Close \/ Timeout

ScriptSpec == Init /\ [][ScriptNext]_vars

\* ------------------------------------------------ audio container calls

\* The variables of the session and of the adapter, which no container
\* function touches.
calling ==
    << mq, pool, run, conn, ui, cfg, params, transport, pc, io, response, audioResponse, settled, hasResponseDone,
       hasSessionFinished, audioChunks, timeoutId, readyState, sent, closeCalls,
       outcome, resolveCalls, rejectCalls, nRecv, last, deltaLog, deltaLogAtSettle,
       settledBy, seenDoneCompleted >>

WavInit ==
    /\ mq = NoMq
    /\ pool = NoPool
    /\ run = NoRun
    /\ conn = NoConn
    /\ ui = NoUi
    /\ cfg = NoCfg
    /\ wav \in { Wav(b, r, b, b, << >>) : b \in Buffers, r \in SampleRates }
    /\ params = [modelId |-> RealtimeLower, voiceId |-> "v1", text |-> << "Hello" >>]
    /\ transport = "none"
    /\ pc = "start"
    /\ io = << >>
    /\ response = NoResponse
    /\ audioResponse = NoAudioResponse
    /\ settled = FALSE
    /\ hasResponseDone = FALSE
    /\ hasSessionFinished = FALSE
    /\ audioChunks = << >>
    /\ timeoutId = "none"
    /\ readyState = "none"
    /\ sent = << >>
    /\ closeCalls = << >>
    /\ outcome = Pending
    /\ resolveCalls = 0
    /\ rejectCalls = 0
    /\ nRecv = 0
    /\ last = Step("init", NoFrame, 0, 0)
    /\ deltaLog = << >>
    /\ deltaLogAtSettle = << >>
    /\ settledBy = Step("none", NoFrame, 0, 0)
    /\ seenDoneCompleted = FALSE

\* The caller passes its buffer through normalizeQwenAudioToWav.
Normalize ==
    /\ Len(wav.calls) < MaxCalls
    /\ wav' = Wav(wav.input, wav.rate, normalizeQwenAudioToWav(wav.buffer, wav.rate),
                  wav.buffer, Append(wav.calls, "normalizeQwenAudioToWav"))
    /\ UNCHANGED calling

\* The caller wraps its buffer as raw samples.
Wrap ==
    /\ Len(wav.calls) < MaxCalls
    /\ wav' = Wav(wav.input, wav.rate, wrapPcm16MonoToWav(wav.buffer, wav.rate),
                  wav.buffer, Append(wav.calls, "wrapPcm16MonoToWav"))
    /\ UNCHANGED calling

\* The caller asks for the duration of its buffer.
Measure ==
    /\ Len(wav.calls) < MaxCalls
    /\ wav' = [wav EXCEPT !.duration = getWavDurationFromBuffer(wav.buffer),
                          !.calls = Append(@, "getWavDurationFromBuffer")]
    /\ UNCHANGED calling

WavNext == Normalize \/ Wrap \/ Measure

WavSpec == WavInit /\ [][WavNext]_vars

\* ------------------------------------------------------ transport adapter

Upper ==
    << "A","B","C","D","E","F","G","H","I","J","K","L","M",
       "N","O","P","Q","R","S","T","U","V","W","X","Y","Z" >>

Lower ==
    << "a","b","c","d","e","f","g","h","i","j","k","l","m",
       "n","o","p","q","r","s","t","u","v","w","x","y","z" >>

\* String.prototype.toLowerCase
toLowerCase(chars) ==
    [i \in 1..Len(chars) |->
        IF \E k \in 1..26 : Upper[k] = chars[i]
        THEN Lower[CHOOSE k \in 1..26 : Upper[k] = chars[i]]
        ELSE chars[i]]

\* String.prototype.includes
includes(chars, search) ==
    \E i \in 0..(Len(chars) - Len(search)) :
        SubSeq(chars, i + 1, i + Len(search)) = search

\* The test without toLowerCase.
isQwenRealtimeModel_CaseSensitive(modelId) ==
    includes(modelId, << "r", "e", "a", "l", "t", "i", "m", "e" >>)

isQwenRealtimeModel(modelId) ==
    includes(toLowerCase(modelId), << "r", "e", "a", "l", "t", "i", "m", "e" >>)

\* response.ok of fetch
ok(status) == status \in 200..299

readQwenAudioBase64(data) ==
    IF data.parsed # "record" THEN null
    ELSE IF data.output # "record" THEN null
    ELSE IF data.audio # "record" THEN null
    ELSE readOptionalString(data.data)

readQwenAudioUrl(data) ==
    IF data.parsed # "record" THEN null
    ELSE IF data.output # "record" THEN null
    ELSE IF data.audio = "record" /\ readOptionalString(data.url) # null
         THEN readOptionalString(data.url)
         ELSE readOptionalString(data.audio_url)

Returned(audioData) ==
    [kind |-> "resolved", audioData |-> audioData,
     audioDuration |-> getWavDurationFromBuffer(audioData), error |-> NoError]

Thrown(error) ==
    [kind |-> "rejected", audioData |-> << >>, audioDuration |-> 0, error |-> error]

\* generateVoiceWithQwenTTSHttp from the reply on, without the status test.
OnHttpResponse_IgnoreStatus(r) ==
    IF r.threw THEN Thrown(Err("TypeError", << "fetch failed" >>))
    ELSE LET responseData == IF r.rawResponse # << >> /\ r.parsed # "SyntaxError"
                             THEN r
                             ELSE NoResponse
             audioBase64 == readQwenAudioBase64(responseData)
             audioUrl == readQwenAudioUrl(responseData)
         IN  IF audioBase64 # null THEN Returned(Base64Decode(audioBase64))
             ELSE IF audioUrl = null
             THEN Thrown(Err("QWEN_TTS_INVALID_RESPONSE", << "missing output audio" >>))
             ELSE Pending

\* generateVoiceWithQwenTTSHttp from the reply to the synthesis request up to
\* the download: what the call returns or throws, Pending when it goes on to
\* fetch the audio URL.
OnHttpResponse(r) ==
    IF r.threw THEN Thrown(Err("TypeError", << "fetch failed" >>))
    ELSE LET responseData == IF r.rawResponse # << >> /\ r.parsed # "SyntaxError"
                             THEN r
                             ELSE NoResponse
             detail == IF responseData.parsed = "record"
                       THEN IF readOptionalString(responseData.message) # null
                            THEN readOptionalString(responseData.message)
                            ELSE readOptionalString(responseData.code)
                       ELSE null
             audioBase64 == readQwenAudioBase64(responseData)
             audioUrl == readQwenAudioUrl(responseData)
         IN  IF ~ok(r.status)
             THEN Thrown(Err("QWEN_TTS_FAILED",
                             << r.status >> \o (IF detail # null THEN detail
                                                ELSE IF r.rawResponse # << >> THEN r.rawResponse
                                                ELSE << "unknown error" >>)))
             ELSE IF audioBase64 # null THEN Returned(Base64Decode(audioBase64))
             ELSE IF audioUrl = null
             THEN Thrown(Err("QWEN_TTS_INVALID_RESPONSE", << "missing output audio" >>))
             ELSE Pending

\* generateVoiceWithQwenTTSHttp from the reply to the download on.
OnAudioResponse(a) ==
    IF a.threw THEN Thrown(Err("TypeError", << "fetch failed" >>))
    ELSE IF ~ok(a.status)
    THEN Thrown(Err("QWEN_TTS_AUDIO_DOWNLOAD_FAILED", << a.status >>))
    ELSE Returned(a.bytes)

session ==
    << settled, hasResponseDone, hasSessionFinished, audioChunks, sent, closeCalls,
       resolveCalls, rejectCalls, nRecv, last, deltaLog, deltaLogAtSettle,
       settledBy, seenDoneCompleted >>

\* Before generateVoiceWithQwenTTS runs: no socket, no timer, no request.
AdapterInit ==
    /\ mq = NoMq
    /\ pool = NoPool
    /\ run = NoRun
    /\ conn = NoConn
    /\ ui = NoUi
    /\ cfg = NoCfg
    /\ wav = NoWav
    /\ params \in [modelId : ModelIds, voiceId : { "v1" }, text : { << "Hello" >> }]
    /\ transport = "none"
    /\ pc = "start"
    /\ io = << >>
    /\ response = NoResponse
    /\ audioResponse = NoAudioResponse
    /\ settled = FALSE
    /\ hasResponseDone = FALSE
    /\ hasSessionFinished = FALSE
    /\ audioChunks = << >>
    /\ timeoutId = "none"
    /\ readyState = "none"
    /\ sent = << >>
    /\ closeCalls = << >>
    /\ outcome = Pending
    /\ resolveCalls = 0
    /\ rejectCalls = 0
    /\ nRecv = 0
    /\ last = Step("init", NoFrame, 0, 0)
    /\ deltaLog = << >>
    /\ deltaLogAtSettle = << >>
    /\ settledBy = Step("none", NoFrame, 0, 0)
    /\ seenDoneCompleted = FALSE

\* generateVoiceWithQwenTTS up to its first await on the network: the
\* streaming session is set up and its socket and timer created, or the
\* synthesis request is posted.
Dispatch ==
    /\ pc = "start"
    /\ IF isQwenRealtimeModel(params.modelId)
       THEN /\ transport' = "realtime"
            /\ \E setup \in Setups :
                 IF setup = "ok"
                 THEN /\ pc' = "session"
                      /\ io' = Append(io, "WebSocket")
                      /\ readyState' = "CONNECTING"
                      /\ timeoutId' = "armed"
                      /\ outcome' = outcome
                 ELSE /\ pc' = "returned"
                      /\ outcome' = Thrown(Err(setup, << >>))
                      /\ UNCHANGED << io, readyState, timeoutId >>
       ELSE /\ transport' = "http"
            /\ pc' = "post"
            /\ io' = Append(io, "POST")
            /\ UNCHANGED << readyState, timeoutId, outcome >>
    /\ UNCHANGED << mq, pool, run, conn, ui, cfg, wav, params, response, audioResponse, session >>

\* The synthesis request is answered, or fails.
HttpRespond ==
    /\ pc = "post"
    /\ \E r \in Responses :
         /\ response' = r
         /\ outcome' = OnHttpResponse(r)
         /\ IF OnHttpResponse(r).kind = "pending"
            THEN pc' = "download" /\ io' = Append(io, "GET")
            ELSE pc' = "returned" /\ io' = io
    /\ UNCHANGED << mq, pool, run, conn, ui, cfg, wav, params, transport, audioResponse, readyState, timeoutId, session >>

\* The download of the audio URL is answered, or fails.
HttpDownload ==
    /\ pc = "download"
    /\ \E a \in AudioResponses :
         /\ audioResponse' = a
         /\ outcome' = OnAudioResponse(a)
    /\ pc' = "returned"
    /\ UNCHANGED << mq, pool, run, conn, ui, cfg, wav, params, transport, io, response, readyState, timeoutId, session >>

\* The streaming session runs once it has been set up.
SessionStep == pc = "session" /\ Next

AdapterNext == Dispatch \/ HttpRespond \/ HttpDownload \/ SessionStep

AdapterSpec == AdapterInit /\ [][AdapterNext]_vars

\* ------------------------------------------------- dispatcher operations

defaultJobOptions ==
    [attempts |-> attempts, backoff |-> [type |-> "exponential", delay |-> backoffDelay]]

\* The variables no dispatcher call touches.
queueing ==
    << pool, run, conn, ui, cfg, wav, params, transport, pc, io, response, audioResponse, settled,
       hasResponseDone, hasSessionFinished, audioChunks, timeoutId, readyState, sent,
       closeCalls, outcome, resolveCalls, rejectCalls, nRecv, last, deltaLog,
       deltaLogAtSettle, settledBy, seenDoneCompleted >>

\* The job is queued or in flight.
IsLive(job) == job.state \in { "waiting", "delayed", "active" }

\* queue.add(name, data, opts): a queue that holds a job of that id, in
\* whatever state, adds nothing.
QueueAdd(jobs, queue, name, data, opts) ==
    IF jobs[queue][opts.jobId].state # "none" THEN jobs
    ELSE [jobs EXCEPT ![queue][opts.jobId] =
             Job("waiting", name, data, opts.priority, 0, 0, 0, 0)]

\* addTaskJob without jobId: data.taskId, so that the queue gives the job an
\* id of its own, one that no job has.
addTaskJob_FreshId(jobs, data, opts) ==
    LET queueType == getQueueTypeByTaskType(data.type)
        queue == getQueueByType(queueType)
        priority == IF opts.hasPriority THEN opts.priority ELSE 0
        free == { id \in TaskIds : \A q \in QueueNames : jobs[q][id].state = "none" }
        fresh == IF free = {} THEN data.taskId ELSE CHOOSE id \in free : TRUE
    IN  QueueAdd(jobs, queue, data.type, data, JobsOptions(TRUE, fresh, TRUE, priority))

\* addTaskJob: the queues after the call; the options of the caller are
\* spread over { jobId: data.taskId, priority }.
addTaskJob(jobs, data, opts) ==
    LET queueType == getQueueTypeByTaskType(data.type)
        queue == getQueueByType(queueType)
        priority == IF opts.hasPriority THEN opts.priority ELSE 0
    IN  QueueAdd(jobs, queue, data.type, data,
                 JobsOptions(TRUE, IF opts.hasJobId THEN opts.jobId ELSE data.taskId,
                             TRUE, priority))

RECURSIVE RemoveFrom(_, _, _)
\* The loop of removeTaskJob from the i-th queue on: the queues after it and
\* what the call returns; job.remove() throws on a job a worker holds.
RemoveFrom(jobs, taskId, i) ==
    IF i > Len(ALL_QUEUES) THEN [jobs |-> jobs, value |-> "false"]
    ELSE LET job == jobs[ALL_QUEUES[i]][taskId] IN
         IF job.state = "none" THEN RemoveFrom(jobs, taskId, i + 1)
         ELSE IF job.state = "active" THEN [jobs |-> jobs, value |-> "throws"]
         ELSE [jobs |-> [jobs EXCEPT ![ALL_QUEUES[i]][taskId] = NoJob], value |-> "true"]

removeTaskJob(jobs, taskId) == RemoveFrom(jobs, taskId, 1)

\* The ids of the live jobs that carry the dedupe key.
LiveWithKey(jobs, key) ==
    { id \in TaskIds : \E q \in QueueNames :
         IsLive(jobs[q][id]) /\ jobs[q][id].data.dedupeKey = key }

\* submitTask: a dedupe key that names a queued or in-flight job gives that
\* job's task; otherwise a task with a fresh id is made and enqueued.
submitTask(m, type, key) ==
    IF LiveWithKey(m.jobs, key) # {}
    THEN [m EXCEPT !.call = Call("submitTask", key, CHOOSE id \in LiveWithKey(m.jobs, key) : TRUE)]
    ELSE LET taskId == CHOOSE id \in TaskIds \ m.used : TRUE
         IN  Mq(m.kinds, addTaskJob(m.jobs, TaskJobData(taskId, type, key), NoOpts),
                m.used \cup { taskId }, Call("submitTask", key, taskId))

\* backoff of type exponential: delay * 2 ^ (attemptsMade - 1), without the doubling.
Backoff_Fixed(attemptsMade) == defaultJobOptions.backoff.delay

\* backoff of type exponential: delay * 2 ^ (attemptsMade - 1)
Backoff(attemptsMade) == defaultJobOptions.backoff.delay * 2 ^ (attemptsMade - 1)

\* A failed attempt is retried while attempts are left, one attempt too many.
RetriesLeft_OneMore(attemptsMade) == attemptsMade <= defaultJobOptions.attempts

\* A failed attempt is retried while attempts are left.
RetriesLeft(attemptsMade) == attemptsMade < defaultJobOptions.attempts

\* The job after its attempt threw.
Failed(job) ==
    IF RetriesLeft(job.attemptsMade + 1)
    THEN [job EXCEPT !.state = "delayed", !.attemptsMade = @ + 1,
                     !.delay = Backoff(job.attemptsMade + 1),
                     !.left = Backoff(job.attemptsMade + 1)]
    ELSE [job EXCEPT !.state = "failed", !.attemptsMade = @ + 1, !.delay = 0, !.left = 0]

\* No synthesis runs.
SessionIdle ==
    /\ wav = NoWav
    /\ params = [modelId |-> RealtimeLower, voiceId |-> "v1", text |-> << "Hello" >>]
    /\ transport = "none"
    /\ pc = "start"
    /\ io = << >>
    /\ response = NoResponse
    /\ audioResponse = NoAudioResponse
    /\ settled = FALSE
    /\ hasResponseDone = FALSE
    /\ hasSessionFinished = FALSE
    /\ audioChunks = << >>
    /\ timeoutId = "none"
    /\ readyState = "none"
    /\ sent = << >>
    /\ closeCalls = << >>
    /\ outcome = Pending
    /\ resolveCalls = 0
    /\ rejectCalls = 0
    /\ nRecv = 0
    /\ last = Step("init", NoFrame, 0, 0)
    /\ deltaLog = << >>
    /\ deltaLogAtSettle = << >>
    /\ settledBy = Step("none", NoFrame, 0, 0)
    /\ seenDoneCompleted = FALSE

\* The queues are empty and callers submit tasks of the given kinds.
QueueInitWith(kinds) ==
    /\ mq = Mq(kinds, NoMq.jobs, {}, NoCall)
    /\ pool = NoPool
    /\ run = NoRun
    /\ conn = NoConn
    /\ ui = NoUi
    /\ cfg = NoCfg
    /\ SessionIdle

QueueInit == QueueInitWith(SubmitTypes)

\* A caller submits a task of some kind under some dedupe key.
Submit ==
    /\ \E type \in mq.kinds, key \in DedupeKeys :
         /\ LiveWithKey(mq.jobs, key) # {} \/ mq.used # TaskIds
         /\ mq' = submitTask(mq, type, key)
    /\ UNCHANGED queueing

\* addTaskJob is called once more with the data of a task made before.
AddAgain ==
    /\ \E q \in QueueNames, id \in TaskIds, priority \in { 0, 3 } :
         /\ mq.jobs[q][id].state # "none"
         /\ mq' = [mq EXCEPT !.jobs = addTaskJob(@, mq.jobs[q][id].data,
                                                 JobsOptions(FALSE, "", priority # 0, priority)),
                             !.call = Call("addTaskJob", id, id)]
    /\ UNCHANGED queueing

\* A caller removes the job of a task id.
Remove ==
    /\ \E taskId \in TaskIds :
         mq' = [mq EXCEPT !.jobs = removeTaskJob(@, taskId).jobs,
                          !.call = Call("removeTaskJob", taskId,
                                        removeTaskJob(mq.jobs, taskId).value)]
    /\ UNCHANGED queueing

\* A worker takes a job that waits, or whose backoff has run out.
Start ==
    /\ \E q \in QueueNames, id \in TaskIds :
         /\ \/ mq.jobs[q][id].state = "waiting"
            \/ mq.jobs[q][id].state = "delayed" /\ mq.jobs[q][id].left = 0
         /\ mq' = [mq EXCEPT !.jobs[q][id].state = "active",
                             !.jobs[q][id].started = @ + 1,
                             !.jobs[q][id].left = 0,
                             !.call = NoCall]
    /\ UNCHANGED queueing

\* The processor of an active job returns.
Succeed ==
    /\ \E q \in QueueNames, id \in TaskIds :
         /\ mq.jobs[q][id].state = "active"
         /\ mq' = [mq EXCEPT !.jobs[q][id].state = "completed",
                             !.jobs[q][id].attemptsMade = @ + 1,
                             !.call = NoCall]
    /\ UNCHANGED queueing

\* The processor of an active job throws.
Fail ==
    /\ \E q \in QueueNames, id \in TaskIds :
         /\ mq.jobs[q][id].state = "active"
         /\ mq' = [mq EXCEPT !.jobs[q][id] = Failed(@), !.call = NoCall]
    /\ UNCHANGED queueing

\* backoffDelay ms pass.
Tick ==
    /\ \E q \in QueueNames, id \in TaskIds :
         mq.jobs[q][id].state = "delayed" /\ mq.jobs[q][id].left > 0
    /\ mq' = [mq EXCEPT !.jobs = [q \in QueueNames |-> [id \in TaskIds |->
                      IF mq.jobs[q][id].state = "delayed" /\ mq.jobs[q][id].left > 0
                      THEN [mq.jobs[q][id] EXCEPT !.left = @ - backoffDelay]
                      ELSE mq.jobs[q][id]]],
                   !.call = NoCall]
    /\ UNCHANGED queueing

QueueNext == Submit \/ AddAgain \/ Remove \/ Start \/ Succeed \/ Fail \/ Tick

QueueSpec == QueueInit /\ [][QueueNext]_vars

\* Callers only, with tasks of every kind.
ClassifyInit == QueueInitWith(TaskTypes)

ClassifyNext == Submit \/ AddAgain \/ Remove

ClassifySpec == ClassifyInit /\ [][ClassifyNext]_vars

\* The options a caller may pass to addTaskJob: none, a priority, a job id,
\* or both.
CallerOptions ==
    { JobsOptions(hasJobId, IF hasJobId THEN jobId ELSE "", priority # 0, priority) :
        hasJobId \in BOOLEAN, jobId \in TaskIds, priority \in { 0, 3 } }

\* A caller enqueues the job of a task with options of its own.
AddWith ==
    /\ \E taskId \in TaskIds, type \in mq.kinds, opts \in CallerOptions :
         mq' = [mq EXCEPT !.jobs = addTaskJob(@, TaskJobData(taskId, type, ""), opts),
                          !.call = CallWith("addTaskJob", taskId, taskId, opts)]
    /\ UNCHANGED queueing

OptionsNext == AddWith \/ Remove

\* addTaskJob and removeTaskJob called directly, with any options.
OptionsSpec == QueueInit /\ [][OptionsNext]_vars

\* ------------------------------------------------------- worker pools

Digits == << "0", "1", "2", "3", "4", "5", "6", "7", "8", "9" >>

IsDigit(c) == \E i \in 1..10 : Digits[i] = c

DigitValue(c) == (CHOOSE i \in 1..10 : Digits[i] = c) - 1

NaN == [nan |-> TRUE, value |-> 0]

Num(n) == [nan |-> FALSE, value |-> n]

RECURSIVE SkipSpace(_)
SkipSpace(s) == IF s # << >> /\ Head(s) = " " THEN SkipSpace(Tail(s)) ELSE s

RECURSIVE DigitsValue(_, _)
\* The value of the longest prefix of digits of s, after the digits of value n.
DigitsValue(s, n) ==
    IF s # << >> /\ IsDigit(Head(s)) THEN DigitsValue(Tail(s), 10 * n + DigitValue(Head(s)))
    ELSE n

\* Number.parseInt(s, 10): white space is skipped, a sign is read, then the
\* longest run of digits; NaN when there is no digit.
parseInt(s) ==
    LET t == SkipSpace(s)
        signed == t # << >> /\ Head(t) \in { "+", "-" }
        d == IF signed THEN Tail(t) ELSE t
    IN  IF d = << >> \/ ~ IsDigit(Head(d)) THEN NaN
        ELSE Num((IF signed /\ Head(t) = "-" THEN -1 ELSE 1) * DigitsValue(d, 0))

VoiceConcurrencyDefault == 10

ImageConcurrencyDefault == 20

\* The string and the number of the default of a queue.
ConcurrencyDefault ==
    [voice |-> [text |-> << "1", "0" >>, number |-> VoiceConcurrencyDefault],
     image |-> [text |-> << "2", "0" >>, number |-> ImageConcurrencyDefault]]

\* The concurrency option with the environment variable never read.
concurrency_NoEnv(queue, envValue) == ConcurrencyDefault[queue].number

\* Number.parseInt(process.env.QUEUE_CONCURRENCY_X || 'd', 10) || d; an unset
\* variable and an empty one are both the empty string here.
concurrency(queue, envValue) ==
    LET parsed == parseInt(IF envValue = << >> THEN ConcurrencyDefault[queue].text ELSE envValue)
    IN  IF parsed.nan \/ parsed.value = 0 THEN ConcurrencyDefault[queue].number
        ELSE parsed.value

MaxVoiceLoad == 11

MaxImageLoad == 21

MaxLoad == [voice |-> MaxVoiceLoad, image |-> MaxImageLoad]

Pools == { "voice", "image" }

\* The values of QUEUE_CONCURRENCY_VOICE and QUEUE_CONCURRENCY_IMAGE.
Environments ==
    { [voice |-> << >>, image |-> << >>],
      [voice |-> << "2" >>, image |-> << "3", "x" >>],
      [voice |-> << "0" >>, image |-> << "x" >>],
      [voice |-> << " ", "4" >>, image |-> << "+", "1", "2" >>] }

\* The variables no worker pool touches.
pooling ==
    << mq, run, conn, ui, cfg, wav, params, transport, pc, io, response, audioResponse, settled,
       hasResponseDone, hasSessionFinished, audioChunks, timeoutId, readyState, sent,
       closeCalls, outcome, resolveCalls, rejectCalls, nRecv, last, deltaLog,
       deltaLogAtSettle, settledBy, seenDoneCompleted >>

\* createVoiceWorker and createImageWorker have each made one worker.
PoolInit ==
    /\ mq = NoMq
    /\ run = NoRun
    /\ conn = NoConn
    /\ ui = NoUi
    /\ cfg = NoCfg
    /\ \E env \in Environments :
         pool = [env |-> env, waiting |-> [q \in Pools |-> 0], active |-> [q \in Pools |-> 0]]
    /\ SessionIdle

\* A job is added to a queue.
Arrive ==
    /\ \E q \in Pools :
         /\ pool.waiting[q] + pool.active[q] < MaxLoad[q]
         /\ pool' = [pool EXCEPT !.waiting[q] = @ + 1]
    /\ UNCHANGED pooling

\* The worker of a queue takes a job while it runs fewer than its concurrency.
Take ==
    /\ \E q \in Pools :
         /\ pool.waiting[q] > 0
         /\ pool.active[q] < concurrency(q, pool.env[q])
         /\ pool' = [pool EXCEPT !.waiting[q] = @ - 1, !.active[q] = @ + 1]
    /\ UNCHANGED pooling

\* The processor of a job settles.
Settle ==
    /\ \E q \in Pools :
         /\ pool.active[q] > 0
         /\ pool' = [pool EXCEPT !.active[q] = @ - 1]
    /\ UNCHANGED pooling

PoolNext == Arrive \/ Take \/ Settle

PoolSpec == PoolInit /\ [][PoolNext]_vars

\* ------------------------------------------------------------ voice ids

\* readTrimmedString: '' unless the value is a string; otherwise it trimmed.
readTrimmedString(value) == IF value.isString THEN Trim(value.chars) ELSE << >>

\* String.prototype.startsWith
startsWith(chars, search) ==
    Len(chars) >= Len(search) /\ SubSeq(chars, 1, Len(search)) = search

\* String.prototype.slice(start)
slice(chars, start) == SubSeq(chars, start + 1, Len(chars))

PrefixVd == << "v", "d", ":" >>

PrefixVc == << "v", "c", ":" >>

\* The family of a model id: "vd", "vc" or "null".
resolveQwenVoiceModelFamily(modelId) ==
    LET normalized == toLowerCase(readTrimmedString(modelId)) IN
    IF normalized = << >> THEN "null"
    ELSE IF includes(normalized, << "t", "t", "s", "-", "v", "d" >>) THEN "vd"
    ELSE IF includes(normalized, << "t", "t", "s", "-", "v", "c" >>) THEN "vc"
    ELSE "null"

\* encodeQwenVoiceIdWithModel that prefixes an id whether or not it has a prefix.
encodeQwenVoiceIdWithModel_Reprefix(voiceId, modelId) ==
    LET normalizedVoiceId == readTrimmedString(voiceId)
        family == resolveQwenVoiceModelFamily(modelId)
    IN  IF normalizedVoiceId = << >> THEN normalizedVoiceId
        ELSE IF family = "null" THEN normalizedVoiceId
        ELSE (IF family = "vd" THEN PrefixVd ELSE PrefixVc) \o normalizedVoiceId

encodeQwenVoiceIdWithModel(voiceId, modelId) ==
    LET normalizedVoiceId == readTrimmedString(voiceId)
        family == resolveQwenVoiceModelFamily(modelId)
    IN  IF normalizedVoiceId = << >> THEN normalizedVoiceId
        ELSE IF startsWith(normalizedVoiceId, PrefixVd) \/ startsWith(normalizedVoiceId, PrefixVc)
        THEN normalizedVoiceId
        ELSE IF family = "null" THEN normalizedVoiceId
        ELSE (IF family = "vd" THEN PrefixVd ELSE PrefixVc) \o normalizedVoiceId

\* What parseQwenVoiceId returns: null, or { voiceId, family }.
NoVoiceId == [isNull |-> TRUE, voiceId |-> << >>, family |-> "null"]

ParsedVoiceId(voiceId, family) == [isNull |-> FALSE, voiceId |-> voiceId, family |-> family]

parseQwenVoiceId(rawVoiceId) ==
    LET normalized == readTrimmedString(rawVoiceId) IN
    IF normalized = << >> THEN NoVoiceId
    ELSE IF startsWith(normalized, PrefixVd)
    THEN LET payload == Trim(slice(normalized, 3)) IN
         IF payload # << >> THEN ParsedVoiceId(payload, "vd") ELSE NoVoiceId
    ELSE IF startsWith(normalized, PrefixVc)
    THEN LET payload == Trim(slice(normalized, 3)) IN
         IF payload # << >> THEN ParsedVoiceId(payload, "vc") ELSE NoVoiceId
    ELSE ParsedVoiceId(normalized, resolveQwenVoiceModelFamily(Str(normalized)))

\* Model ids: "q-tts-vd", "Q-TTS-VC-2", " q-tts-vd " and "q-flash", which
\* names no family.
ModelVd == << "q", "-", "t", "t", "s", "-", "v", "d" >>

ModelVcMixed == << "Q", "-", "T", "T", "S", "-", "V", "C", "-", "2" >>

ModelVdSpaced == << " " >> \o ModelVd \o << " " >>

ModelFlash == << "q", "-", "f", "l", "a", "s", "h" >>

VoiceModelIds == { Str(ModelVd), Str(ModelVcMixed), Str(ModelVdSpaced), Str(ModelFlash),
                   Str(<< >>), Absent }

\* Voice ids: "v1", "a b", "VD:x", "my-tts-vc", "vd:x", "vc: y", " v1 ",
\* "vd:x ", "vd:", "  ", "" and a value that is no string.
VoiceIds ==
    { Str(<< "v", "1" >>), Str(<< "a", " ", "b" >>), Str(<< "V", "D", ":", "x" >>),
      Str(<< "m", "y", "-", "t", "t", "s", "-", "v", "c" >>),
      Str(<< "v", "d", ":", "x" >>), Str(<< "v", "c", ":", " ", "y" >>),
      Str(<< " ", "v", "1", " " >>), Str(<< "v", "d", ":", "x", " " >>),
      Str(<< "v", "d", ":" >>), Str(<< " ", " " >>), Str(<< >>), Absent }

MaxEncodes == 2

\* The variables the voice-id functions do not touch.
naming ==
    << mq, pool, run, conn, ui, wav, params, transport, pc, io, response, audioResponse,
       settled, hasResponseDone, hasSessionFinished, audioChunks, timeoutId, readyState,
       sent, closeCalls, outcome, resolveCalls, rejectCalls, nRecv, last, deltaLog,
       deltaLogAtSettle, settledBy, seenDoneCompleted >>

\* A caller holds a voice id it has passed to no function yet.
VoiceInit ==
    /\ \E v \in VoiceIds :
         cfg = [pc |-> "voice", v |-> v, id |-> v, encodes |-> 0, first |-> Absent,
                modelId |-> Absent, afterFirst |-> v, parsed |-> NoVoiceId, parsedAt |-> -1]
    /\ mq = NoMq
    /\ pool = NoPool
    /\ run = NoRun
    /\ conn = NoConn
    /\ ui = NoUi
    /\ SessionIdle

\* The id is encoded with some model id and the result kept as the id.
Encode ==
    /\ cfg.encodes < MaxEncodes
    /\ \E modelId \in VoiceModelIds :
         LET encoded == Str(encodeQwenVoiceIdWithModel(cfg.id, modelId)) IN
         cfg' = [cfg EXCEPT !.id = encoded,
                            !.encodes = @ + 1,
                            !.first = IF cfg.encodes = 0 THEN modelId ELSE @,
                            !.modelId = modelId,
                            !.afterFirst = IF cfg.encodes = 0 THEN encoded ELSE @]
    /\ UNCHANGED naming

\* The id is parsed.
Parse ==
    /\ cfg.parsedAt # cfg.encodes
    /\ cfg' = [cfg EXCEPT !.parsed = parseQwenVoiceId(cfg.id), !.parsedAt = cfg.encodes]
    /\ UNCHANGED naming

VoiceNext == Encode \/ Parse

VoiceSpec == VoiceInit /\ [][VoiceNext]_vars

\* ------------------------------------------------------------ workers

\* What a job leaves behind: progress events, the handler it was given to,
\* and the queries of its cancellation flag.
Progress(percent, stage) == [kind |-> "progress", percent |-> percent, stage |-> stage]

Invoked(handler) == [kind |-> "handler", percent |-> 0, stage |-> handler]

Queried(stage) == [kind |-> "cancelled?", percent |-> 0, stage |-> stage]

\* A job in the hands of a worker.
\* What resolveModelSelectionOrSingle gives back, and the place of one
\* before any was made.
Selection(modelKey, modelId, provider) ==
    [modelKey |-> modelKey, modelId |-> modelId, provider |-> provider]

NoSelection == Selection(<< >>, << >>, << >>)

Run(worker, type, payload, pc_, cancelled, checkCancelled, events, error, final, written) ==
    [worker |-> worker, type |-> type, payload |-> payload, pc |-> pc_,
     cancelled |-> cancelled, checkCancelled |-> checkCancelled, events |-> events,
     error |-> error, final |-> final, written |-> written,
     did |-> << >>, audioSelection |-> NoSelection]

Workers == { "voice", "image" }

Payloads == { "valid", "invalid" }

\* throw new Error(...) in a handler
Throw(r) == [r EXCEPT !.pc = "thrown", !.error = "error"]

\* reportTaskProgress: the event is published; the job goes on.
reportTaskProgress(r, percent, stage) ==
    [r EXCEPT !.events = Append(@, Progress(percent, stage))]

\* assertTaskActive: the cancellation flag is read; a cancelled job throws.
assertTaskActive(r, stage) ==
    IF r.cancelled
    THEN [r EXCEPT !.events = Append(@, Queried(stage)), !.pc = "thrown", !.error = "cancelled"]
    ELSE [r EXCEPT !.events = Append(@, Queried(stage))]

\* The first statement of processVoiceTask and processImageTask, left out.
received_Skipped(r) == [r EXCEPT !.pc = "switch"]

\* The first statement of processVoiceTask and processImageTask.
received(r) == [reportTaskProgress(r, 5, "received") EXCEPT !.pc = "switch"]

\* throw new Error(`Unsupported ... task type: ...`)
Unsupported(r) == [r EXCEPT !.pc = "thrown", !.error = "unsupported"]

\* The job is given to a handler of the voice or image handlers.
Handle(r, handler, at) == [r EXCEPT !.events = Append(@, Invoked(handler)), !.pc = at]

\* The switch of processVoiceTask without the case of the asset-hub kind.
processVoiceTask_NoAssetHub(r) ==
    CASE r.type = "VOICE_LINE" -> Handle(r, "handleVoiceLineTask", "line")
      [] r.type = "VOICE_DESIGN" -> Handle(r, "handleVoiceDesignTask", "design")
      [] OTHER -> Unsupported(r)

\* The switch of processVoiceTask.
processVoiceTask(r) ==
    CASE r.type = "VOICE_LINE" -> Handle(r, "handleVoiceLineTask", "line")
      [] r.type = "VOICE_DESIGN" -> Handle(r, "handleVoiceDesignTask", "design")
      [] r.type = "ASSET_HUB_VOICE_DESIGN" -> Handle(r, "handleVoiceDesignTask", "design")
      [] OTHER -> Unsupported(r)

\* The switch of processImageTask; character is payload.type === 'character'.
processImageTask(r, character) ==
    CASE r.type = "IMAGE_CHARACTER" -> Handle(r, "handleCharacterImageTask", "image")
      [] r.type = "IMAGE_LOCATION" -> Handle(r, "handleLocationImageTask", "image")
      [] r.type = "REGENERATE_GROUP" ->
           IF character THEN Handle(r, "handleCharacterImageTask", "image")
           ELSE Handle(r, "handleLocationImageTask", "image")
      [] r.type = "MODIFY_ASSET_IMAGE" -> Handle(r, "handleModifyAssetImageTask", "image")
      [] r.type = "ASSET_HUB_IMAGE" -> Handle(r, "handleAssetHubImageTask", "image")
      [] r.type = "ASSET_HUB_MODIFY" -> Handle(r, "handleAssetHubModifyTask", "image")
      [] r.type = "IMAGE_PANEL" -> Handle(r, "handlePanelImageTask", "image")
      [] r.type = "PANEL_VARIANT" -> Handle(r, "handlePanelVariantTask", "image")
      [] OTHER -> Unsupported(r)

\* handleVoiceLineTask up to its call of generateVoiceLine, which it gives
\* no checkCancelled.
handleVoiceLineTask(r) ==
    IF r.payload = "invalid" THEN Throw(r)
    ELSE [reportTaskProgress(r, 20, "generate_voice_submit") EXCEPT
             !.pc = "generate", !.checkCancelled = FALSE]

\* throw new Error(`CODE: ...`) of the model selection
ThrowCode(r, code) == [r EXCEPT !.pc = "thrown", !.error = code]

\* A call generateVoiceLine makes, in the order of the calls.
Did(r, call) == [r EXCEPT !.did = Append(@, call)]

\* The record store and the configuration of the user that one call of
\* generateVoiceLine reads.
Config(line, characterVoiceId, speakerVoiceId, audioModel, enabled) ==
    [pc |-> "line", line |-> line, characterVoiceId |-> characterVoiceId,
     speakerVoiceId |-> speakerVoiceId, audioModel |-> audioModel, enabled |-> enabled]

\* readOptionalString(character?.voiceId) || readOptionalString(speakerVoice?.voiceId)
storedVoiceId(c) ==
    IF readOptionalString(c.characterVoiceId) # null
    THEN readOptionalString(c.characterVoiceId)
    ELSE readOptionalString(c.speakerVoiceId)

\* The result of a selection: the selection, or the code of the error thrown.
Selected(selection) == [error |-> "none", selection |-> selection]

NotSelected(code) == [error |-> code, selection |-> NoSelection]

\* getModelsByType(userId, 'audio'): the audio models the user has enabled.
getModelsByType(c) == c.enabled

\* resolveModelSelectionOrSingle: the enabled model of the given key, or the
\* only enabled model when no key is given; a missing or ambiguous selection
\* is an error.
resolveModelSelectionOrSingle(c, modelKey) ==
    LET models == getModelsByType(c)
        named == { m \in models : m.modelKey = modelKey }
    IN  IF modelKey # null
        THEN IF named = {} THEN NotSelected("MODEL_NOT_FOUND")
             ELSE Selected(CHOOSE m \in named : TRUE)
        ELSE IF models = {} THEN NotSelected("MODEL_NOT_CONFIGURED")
        ELSE IF Cardinality(models) > 1 THEN NotSelected("MODEL_SELECTION_REQUIRED")
        ELSE Selected(CHOOSE m \in models : TRUE)

\* assertVoiceFamilyMatchesSelection that lets a model of another family pass.
assertVoiceFamilyMatchesSelection_AnyFamily(selection, family) ==
    IF family = "null" THEN "none"
    ELSE IF resolveQwenVoiceModelFamily(Str(selection.modelId)) = "null"
    THEN "AUDIO_MODEL_UNSUPPORTED"
    ELSE "none"

\* The code of the error assertVoiceFamilyMatchesSelection throws, or "none".
assertVoiceFamilyMatchesSelection(selection, family) ==
    IF family = "null" THEN "none"
    ELSE LET selectedFamily == resolveQwenVoiceModelFamily(Str(selection.modelId)) IN
         IF selectedFamily = "null" THEN "AUDIO_MODEL_UNSUPPORTED"
         ELSE IF selectedFamily # family THEN "AUDIO_MODEL_MISMATCH"
         ELSE "none"

resolveAudioSelectionForVoice(c, requested, voiceFamily) ==
    LET requestedModel == readOptionalString(requested) IN
    IF requestedModel # null
    THEN LET explicitSelection == resolveModelSelectionOrSingle(c, requestedModel) IN
         IF explicitSelection.error # "none" THEN explicitSelection
         ELSE LET thrown == assertVoiceFamilyMatchesSelection(explicitSelection.selection,
                                                              voiceFamily)
              IN  IF thrown # "none" THEN NotSelected(thrown) ELSE explicitSelection
    ELSE IF voiceFamily = "null" THEN resolveModelSelectionOrSingle(c, null)
    ELSE LET matchedModels ==
                 { model \in getModelsByType(c) :
                     resolveQwenVoiceModelFamily(Str(model.modelId)) = voiceFamily }
         IN  IF matchedModels = {} THEN NotSelected("MODEL_NOT_CONFIGURED")
             ELSE IF Cardinality(matchedModels) > 1 THEN NotSelected("MODEL_SELECTION_REQUIRED")
             ELSE resolveModelSelectionOrSingle(c, (CHOOSE m \in matchedModels : TRUE).modelKey)

\* getProviderKey: the key of the provider a selection names.
getProviderKey(provider) == provider

\* generateVoiceLine from its first look-up to the check of the text.
lookUp(r, c) ==
    IF c.line = "missing" THEN Throw(r)
    ELSE IF parseQwenVoiceId(Str(storedVoiceId(c))).isNull THEN Throw(r)
    ELSE IF c.line = "empty" THEN Throw(r)
    ELSE [r EXCEPT !.pc = "select"]

\* generateVoiceLine from the model selection to the API key; hasKey is
\* whether getAudioApiKey finds one.
select(r, c, hasKey) ==
    LET parsedVoiceId == parseQwenVoiceId(Str(storedVoiceId(c)))
        audioSelection == resolveAudioSelectionForVoice(c, c.audioModel, parsedVoiceId.family)
    IN  IF audioSelection.error # "none" THEN ThrowCode(r, audioSelection.error)
        ELSE IF toLowerCase(getProviderKey(audioSelection.selection.provider))
                  # << "q", "w", "e", "n" >>
        THEN ThrowCode(r, "AUDIO_PROVIDER_UNSUPPORTED")
        ELSE IF ~hasKey THEN Throw(r)
        ELSE [r EXCEPT !.pc = "synthesize", !.audioSelection = audioSelection.selection]

\* await checkCancelled?.() that goes on to the update whatever the check found.
checkCancelled_Deaf(r) ==
    IF r.checkCancelled
    THEN [Did(assertTaskActive(r, "generateVoiceLine"), "check") EXCEPT !.pc = "update"]
    ELSE [Did(r, "check") EXCEPT !.pc = "update"]

\* await checkCancelled?.() of generateVoiceLine
checkCancelled(r) ==
    IF r.checkCancelled
    THEN [Did(assertTaskActive(r, "generateVoiceLine"), "check") EXCEPT
             !.pc = IF r.cancelled THEN "thrown" ELSE "update"]
    ELSE [Did(r, "check") EXCEPT !.pc = "update"]

\* handleVoiceDesignTask up to its first progress event.
handleVoiceDesignTask(r) ==
    IF r.payload = "invalid" THEN Throw(r)
    ELSE [reportTaskProgress(r, 25, "voice_design_submit") EXCEPT !.pc = "assert"]

\* withTaskLifecycle once the handler has returned or thrown.
withTaskLifecycle(r) ==
    [r EXCEPT !.pc = "done",
              !.final = IF r.pc = "returned" THEN "succeeded"
                        ELSE IF r.error = "cancelled" THEN "cancelled" ELSE "failed"]

\* The variables no worker touches.
working ==
    << mq, pool, conn, ui, cfg, wav, params, transport, pc, io, response, audioResponse, settled,
       hasResponseDone, hasSessionFinished, audioChunks, timeoutId, readyState, sent,
       closeCalls, outcome, resolveCalls, rejectCalls, nRecv, last, deltaLog,
       deltaLogAtSettle, settledBy, seenDoneCompleted >>

\* Audio models: two of family vd and one of family vc of provider "Qwen",
\* one of no family, and one of family vd of another provider.
QwenVd == Selection(<< "A" >>, ModelVd, << "Q", "w", "e", "n" >>)

QwenVc == Selection(<< "B" >>, ModelVcMixed, << "Q", "w", "e", "n" >>)

QwenFlash == Selection(<< "C" >>, ModelFlash, << "Q", "w", "e", "n" >>)

OtherVd == Selection(<< "D" >>, ModelVdSpaced, << "o", "t", "h", "e", "r" >>)

QwenVd2 == Selection(<< "E" >>, ModelVd \o << "-", "2" >>, << "Q", "w", "e", "n" >>)

\* The sets of audio models a user may have enabled.
EnabledModels ==
    { {}, { QwenVd }, { QwenVc }, { QwenFlash }, { OtherVd }, { QwenVd, QwenVc },
      { QwenVd, QwenVd2 }, { QwenVd, OtherVd }, { QwenVd, QwenVc, QwenFlash } }

\* params.audioModel: none, the key of a model, or a key no model has.
AudioModelKeys ==
    { Absent, Str(<< "A" >>), Str(<< " ", "B" >>), Str(<< "C" >>), Str(<< "D" >>),
      Str(<< "Z" >>) }

\* The voice id of the character: none, "vd:x", "v1" or "my-tts-vc".
CharacterVoiceIds ==
    { Absent, Str(<< "v", "d", ":", "x" >>), Str(<< "v", "1" >>),
      Str(<< "m", "y", "-", "t", "t", "s", "-", "v", "c" >>) }

\* The voice id of the speaker in the episode: none or "vc: y".
SpeakerVoiceIds == { Absent, Str(<< "v", "c", ":", " ", "y" >>) }

\* What the look-ups find: no line (or no episode or project), a line with
\* no text, a line with text.
Lines == { "missing", "empty", "found" }

Configs ==
    { Config(line, characterVoiceId, speakerVoiceId, audioModel, enabled) :
        line \in Lines, characterVoiceId \in CharacterVoiceIds,
        speakerVoiceId \in SpeakerVoiceIds, audioModel \in AudioModelKeys,
        enabled \in EnabledModels }

\* The configurations of the jobs a worker takes.
WorkerConfigs ==
    { Config("found", Str(<< "v", "d", ":", "x" >>), Absent, Absent, { QwenVd }),
      Config("found", Absent, Absent, Absent, { QwenVd }) }

\* A worker has taken a job; nothing of it has run.
WorkerInit ==
    /\ mq = NoMq
    /\ pool = NoPool
    /\ conn = NoConn
    /\ ui = NoUi
    /\ \E worker \in Workers, type \in TaskTypes, payload \in Payloads :
         /\ run = Run(worker, type, payload, "queued", FALSE, FALSE, << >>, "none", "none", FALSE)
         /\ cfg \in IF worker = "voice" /\ type = "VOICE_LINE" THEN WorkerConfigs ELSE { NoCfg }
    /\ SessionIdle

\* generateVoiceLine has been called, with a checkCancelled or without one.
LineInit ==
    /\ mq = NoMq
    /\ pool = NoPool
    /\ conn = NoConn
    /\ ui = NoUi
    /\ cfg \in Configs
    /\ \E check \in BOOLEAN :
         run = Run("voice", "VOICE_LINE", "valid", "generate", FALSE, check, << >>,
                   "none", "none", FALSE)
    /\ SessionIdle

\* The task is cancelled while its job is in a worker's hands.
Cancel ==
    /\ run.pc \notin { "none", "done" }
    /\ ~ run.cancelled
    /\ run' = [run EXCEPT !.cancelled = TRUE]
    /\ UNCHANGED working

Receive ==
    /\ run.pc = "queued"
    /\ run' = received(run)
    /\ UNCHANGED working

Route ==
    /\ run.pc = "switch"
    /\ \E character \in BOOLEAN :
         run' = IF run.worker = "voice" THEN processVoiceTask(run)
                ELSE processImageTask(run, character)
    /\ UNCHANGED working

LineSubmit ==
    /\ run.pc = "line"
    /\ run' = handleVoiceLineTask(run)
    /\ UNCHANGED working

Lookup ==
    /\ run.pc = "generate"
    /\ run' = lookUp(run, cfg)
    /\ UNCHANGED working

Select ==
    /\ run.pc = "select"
    /\ \E hasKey \in BOOLEAN : run' = select(run, cfg, hasKey)
    /\ UNCHANGED working

\* generateVoiceWithQwenTTS is called; it resolves or rejects.
Synthesize ==
    /\ run.pc = "synthesize"
    /\ \E fine \in BOOLEAN :
         run' = IF fine THEN [Did(run, "synthesis") EXCEPT !.pc = "upload"]
                ELSE Throw(Did(run, "synthesis"))
    /\ UNCHANGED working

\* uploadToCOS is called; it resolves or rejects.
Upload ==
    /\ run.pc = "upload"
    /\ \E fine \in BOOLEAN :
         run' = IF fine THEN [Did(run, "upload") EXCEPT !.pc = "check"]
                ELSE Throw(Did(run, "upload"))
    /\ UNCHANGED working

CheckCancelled ==
    /\ run.pc = "check"
    /\ run' = checkCancelled(run)
    /\ UNCHANGED working

\* prisma.novelPromotionVoiceLine.update and the return of generateVoiceLine
Update ==
    /\ run.pc = "update"
    /\ run' = [Did(run, "update") EXCEPT !.written = TRUE, !.pc = "persist"]
    /\ UNCHANGED working

LinePersist ==
    /\ run.pc = "persist"
    /\ run' = [reportTaskProgress(run, 95, "generate_voice_persist") EXCEPT !.pc = "returned"]
    /\ UNCHANGED working

DesignSubmit ==
    /\ run.pc = "design"
    /\ run' = handleVoiceDesignTask(run)
    /\ UNCHANGED working

DesignAssert ==
    /\ run.pc = "assert"
    /\ run' = IF run.cancelled THEN assertTaskActive(run, "voice_design_submit")
              ELSE [assertTaskActive(run, "voice_design_submit") EXCEPT !.pc = "create"]
    /\ UNCHANGED working

\* handleVoiceDesignTask from the model selection to its return: the
\* selection, the provider check and createVoiceDesign may each fail.
DesignCreate ==
    /\ run.pc = "create"
    /\ \E fine \in BOOLEAN :
         run' = IF fine
                THEN [reportTaskProgress(run, 96, "voice_design_done") EXCEPT !.pc = "returned"]
                ELSE Throw(run)
    /\ UNCHANGED working

\* A handler of image-task-handlers returns or throws.
ImageHandle ==
    /\ run.pc = "image"
    /\ \E fine \in BOOLEAN :
         run' = IF fine THEN [run EXCEPT !.pc = "returned"] ELSE Throw(run)
    /\ UNCHANGED working

Finalize ==
    /\ run.pc \in { "returned", "thrown" }
    /\ run' = withTaskLifecycle(run)
    /\ UNCHANGED working

WorkerNext ==
    \/ Cancel \/ Receive \/ Route \/ LineSubmit \/ Lookup \/ Select \/ Synthesize \/ Upload
    \/ CheckCancelled \/ Update \/ LinePersist \/ DesignSubmit \/ DesignAssert \/ DesignCreate \/ ImageHandle \/ Finalize

WorkerSpec == WorkerInit /\ [][WorkerNext]_vars

\* One call of generateVoiceLine, up to its return or its throw.
LineNext == Cancel \/ Lookup \/ Select \/ Synthesize \/ Upload \/ CheckCancelled \/ Update

LineSpec == LineInit /\ [][LineNext]_vars

\* -------------------------------------------------- broker connection

MaxEvals == 3

MaxUsers == 2

\* globalThis.__waoowaooRedis: absent, or the holder of the two clients; a
\* client is named by the number of the new Redis(...) call that made it, 0
\* is undefined.
NoHolder == [present |-> FALSE, app |-> 0, queue |-> 0]

\* const singleton = {} in every evaluation, globalThis never consulted.
singleton_Fresh(global) == [present |-> TRUE, app |-> 0, queue |-> 0]

\* const singleton = globalForRedis.__waoowaooRedis || {}
singleton(global) ==
    IF global.present THEN global ELSE [present |-> TRUE, app |-> 0, queue |-> 0]

\* One evaluation of the connection module: the holder is found or made, the
\* clients it lacks are made, and the module exports queueConnection.
EvaluateRedis(c) ==
    LET s == singleton(c.global)
        app == IF s.app # 0 THEN s.app ELSE c.made + 1
        made1 == IF s.app # 0 THEN c.made ELSE c.made + 1
        queue == IF s.queue # 0 THEN s.queue ELSE made1 + 1
        made2 == IF s.queue # 0 THEN made1 ELSE made1 + 1
    IN  [c EXCEPT !.global = [present |-> TRUE, app |-> app, queue |-> queue],
                  !.made = made2,
                  !.queueClients = IF s.queue # 0 THEN @ ELSE @ \cup { queue },
                  !.modules = Append(@, [redis |-> app, queueRedis |-> queue,
                                         queueConnection |-> queue])]

\* One evaluation of the queues module against an evaluation of the
\* connection module: four queues on its queueConnection.
EvaluateQueues(c, m) ==
    [c EXCEPT !.queues = Append(@, [module |-> m,
                                    connection |-> [q \in QueueNames |->
                                                      c.modules[m].queueConnection]])]

\* createVoiceWorker or createImageWorker against an evaluation of the
\* connection module.
CreateWorker(c, worker, m) ==
    [c EXCEPT !.workers = Append(@, [name |-> worker, module |-> m,
                                      connection |-> c.modules[m].queueConnection])]

\* The variables the connection module does not touch.
connecting ==
    << mq, pool, run, ui, cfg, wav, params, transport, pc, io, response, audioResponse,
       settled, hasResponseDone, hasSessionFinished, audioChunks, timeoutId, readyState,
       sent, closeCalls, outcome, resolveCalls, rejectCalls, nRecv, last, deltaLog,
       deltaLogAtSettle, settledBy, seenDoneCompleted >>

\* A process in which no module has been evaluated.
ConnInit ==
    /\ conn = [pc |-> "process", global |-> NoHolder, made |-> 0, queueClients |-> {},
               modules |-> << >>, queues |-> << >>, workers |-> << >>]
    /\ mq = NoMq
    /\ pool = NoPool
    /\ run = NoRun
    /\ ui = NoUi
    /\ cfg = NoCfg
    /\ SessionIdle

\* The connection module is evaluated, for the first time or once more.
Evaluate ==
    /\ Len(conn.modules) < MaxEvals
    /\ conn' = EvaluateRedis(conn)
    /\ UNCHANGED connecting

\* The queues module is evaluated.
MakeQueues ==
    /\ Len(conn.queues) < MaxUsers
    /\ \E m \in 1..Len(conn.modules) : conn' = EvaluateQueues(conn, m)
    /\ UNCHANGED connecting

\* A worker is created.
MakeWorker ==
    /\ Len(conn.workers) < MaxUsers
    /\ \E m \in 1..Len(conn.modules), worker \in Workers : conn' = CreateWorker(conn, worker, m)
    /\ UNCHANGED connecting

ConnNext == Evaluate \/ MakeQueues \/ MakeWorker

ConnSpec == ConnInit /\ [][ConnNext]_vars

\* ------------------------------------------------- voice-generation hook

LineIds == { "l1", "l2" }

\* A voice line as handleGenerateAll reads it: whether it has an audioUrl, and
\* whether the character or the speaker voice of its speaker has a voice id,
\* a custom voice url or an audio url.
VoiceLine(audioUrl, characterVoiceId, customVoiceUrl, speakerVoiceId, speakerAudioUrl) ==
    [audioUrl |-> audioUrl, characterVoiceId |-> characterVoiceId,
     customVoiceUrl |-> customVoiceUrl, speakerVoiceId |-> speakerVoiceId,
     speakerAudioUrl |-> speakerAudioUrl]

\* Lines: with a character voice and no audio, with audio, with no voice at
\* all, with nothing but the audio of a speaker voice.
VoiceLines ==
    { VoiceLine(FALSE, TRUE, FALSE, FALSE, FALSE), VoiceLine(TRUE, TRUE, FALSE, FALSE, FALSE),
      VoiceLine(FALSE, FALSE, FALSE, FALSE, FALSE), VoiceLine(FALSE, FALSE, FALSE, FALSE, TRUE) }

\* What generateVoiceMutation.mutateAsync settles with: a success with a task
\* id (or task ids), a success with none, an unsuccessful response, a
\* rejection with status 402, another rejection.
Settlements == { "async", "sync", "unsuccessful", "402", "error" }

\* The filter of handleGenerateAll.
linesToGenerate(voiceLines) ==
    { id \in LineIds :
        /\ ~ voiceLines[id].audioUrl
        /\ \/ voiceLines[id].characterVoiceId
           \/ voiceLines[id].customVoiceUrl
           \/ voiceLines[id].speakerVoiceId
           \/ voiceLines[id].speakerAudioUrl }

\* handleGenerateLine up to its await.
handleGenerateLine(u, lineId) ==
    [u EXCEPT !.submitting = @ \cup { lineId }, !.line[lineId] = "pending"]

\* handleGenerateLine from the settling of the mutation to its end.
lineSettled(u, lineId, data) ==
    LET handoffToTaskState == data = "async" IN
    IF handoffToTaskState THEN [u EXCEPT !.line[lineId] = "handedOff"]
    ELSE [u EXCEPT !.submitting = @ \ { lineId }, !.line[lineId] = "ended"]

\* handleGenerateAll up to its await, or to its return when no line is left
\* to generate.
handleGenerateAll(u) ==
    LET lineIds == linesToGenerate(u.voiceLines) IN
    IF lineIds = {} THEN [u EXCEPT !.all = "nothing"]
    ELSE [u EXCEPT !.isBatchSubmittingAll = TRUE, !.lineIds = lineIds,
                   !.submitting = @ \cup lineIds, !.all = "pending"]

\* handleGenerateAll from the settling of the mutation to its end; "sync"
\* and "unsuccessful" are responses with no task ids.
allSettled(u, data) ==
    LET handoffToTaskState == data = "async" IN
    IF handoffToTaskState
    THEN [u EXCEPT !.isBatchSubmittingAll = FALSE, !.all = "handedOff"]
    ELSE [u EXCEPT !.isBatchSubmittingAll = FALSE, !.submitting = @ \ u.lineIds,
                   !.all = "ended"]

\* The variables the hook does not touch.
hooking ==
    << mq, pool, run, conn, cfg, wav, params, transport, pc, io, response, audioResponse,
       settled, hasResponseDone, hasSessionFinished, audioChunks, timeoutId, readyState,
       sent, closeCalls, outcome, resolveCalls, rejectCalls, nRecv, last, deltaLog,
       deltaLogAtSettle, settledBy, seenDoneCompleted >>

\* The hook is mounted over some voice lines; nothing is submitting.
UiInit ==
    /\ \E voiceLines \in [LineIds -> VoiceLines] :
         ui = [pc |-> "ui", voiceLines |-> voiceLines, submitting |-> {},
               line |-> [id \in LineIds |-> "idle"], all |-> "idle", lineIds |-> {},
               isBatchSubmittingAll |-> FALSE]
    /\ mq = NoMq
    /\ pool = NoPool
    /\ run = NoRun
    /\ conn = NoConn
    /\ cfg = NoCfg
    /\ SessionIdle

GenerateLine ==
    /\ \E lineId \in LineIds :
         /\ ui.line[lineId] = "idle"
         /\ ui' = handleGenerateLine(ui, lineId)
    /\ UNCHANGED hooking

LineSettles ==
    /\ \E lineId \in LineIds, data \in Settlements :
         /\ ui.line[lineId] = "pending"
         /\ ui' = lineSettled(ui, lineId, data)
    /\ UNCHANGED hooking

GenerateAll ==
    /\ ui.all = "idle"
    /\ ui' = handleGenerateAll(ui)
    /\ UNCHANGED hooking

AllSettles ==
    /\ ui.all = "pending"
    /\ \E data \in Settlements : ui' = allSettled(ui, data)
    /\ UNCHANGED hooking

UiNext == GenerateLine \/ LineSettles \/ GenerateAll \/ AllSettles

UiSpec == UiInit /\ [][UiNext]_vars

\* ------------------------------------------------------------ properties

Calls == resolveCalls + rejectCalls

\* The step delivers a frame that parses to an event of type `name`.
Delivered(name) ==
    /\ nRecv' = nRecv + 1
    /\ last'.h = "message"
    /\ IsEvent(last'.data, name)

\* C1: a session produces at most one terminal outcome: resolve and reject are
\* called at most once in total, and once the promise is decided no later
\* message, close, transport error or timer expiry changes the outcome.
C1_AtMostOneOutcome ==
    [][ /\ resolveCalls' + rejectCalls' <= 1
        /\ (outcome.kind # "pending" => outcome' = outcome)
        /\ (outcome'.kind # "pending" <=> settled') ]_vars

\* C1 witness: a resolved session that afterwards was delivered a further
\* well-formed delta and then the close event.
C1_Witness ==
    /\ outcome.kind = "resolved"
    /\ Len(deltaLog) > Len(deltaLogAtSettle)
    /\ last.h = "close"
    /\ Calls = 1

\* C2 (as claimed): whenever the session is settled as success ws.close(1000)
\* has been called, and whenever it is settled as failure ws.close(1011) has
\* been called.
C2_SettlingClosesConnection ==
    /\ outcome.kind = "resolved" =>
         \E i \in 1..Len(closeCalls) : closeCalls[i] = CloseNormal
    /\ outcome.kind = "rejected" =>
         \E i \in 1..Len(closeCalls) : closeCalls[i] = CloseInternalError

\* The event types the open handler has to send, in order.
C3_Types ==
    << "session.update", "input_text_buffer.append",
       "input_text_buffer.commit", "session.finish" >>

\* C3: the open step sends session.update, input_text_buffer.append (with the
\* full text), input_text_buffer.commit, session.finish in this order; when
\* the k-th send throws, exactly the first k-1 were sent and the session is
\* settled as failure QWEN_TTS_WS_SEND_FAILED; no other step sends anything.
C3_OpenSendsFourInOrder ==
    [][ IF last'.h = "open" /\ last.h # "open"
        THEN LET k == last'.failAt
                 n == IF k = 0 THEN 4 ELSE k - 1
             IN  /\ Len(sent') = n
                 /\ \A i \in 1..n : sent'[i].type = C3_Types[i]
                 /\ n >= 2 => sent'[2].body = << params.text >>
                 /\ k = 0 => ~settled' /\ outcome' = Pending
                 /\ k > 0 => /\ settled'
                             /\ outcome'.kind = "rejected"
                             /\ outcome'.error.code = "QWEN_TTS_WS_SEND_FAILED"
        ELSE sent' = sent ]_vars

\* C3 witness: the third send threw after two events went out.
C3_Witness ==
    /\ last.h = "open"
    /\ last.failAt = 3
    /\ Len(sent) = 2
    /\ outcome.kind = "rejected"

\* The bytes the payloads of `log` decode to, concatenated in log order.
RECURSIVE C4_Decoded(_)
C4_Decoded(log) ==
    IF log = << >> THEN << >>
    ELSE Base64Decode(Trim(Head(log))) \o C4_Decoded(Tail(log))

\* C4: the accumulated chunks are the decoded deltas in arrival order, and the
\* audio of a successful result is the normalised concatenation, in arrival
\* order, of exactly the deltas delivered before the session settled.
C4_AudioInArrivalOrder ==
    /\ Len(audioChunks) = Len(deltaLog)
    /\ \A i \in 1..Len(deltaLog) : audioChunks[i] = Base64Decode(Trim(deltaLog[i]))
    /\ outcome.kind = "resolved" =>
         outcome.audioData =
             normalizeQwenAudioToWav(C4_Decoded(deltaLogAtSettle), sampleRate)

\* C4 witness: a success built from two different deltas.
C4_Witness ==
    /\ outcome.kind = "resolved"
    /\ Len(deltaLogAtSettle) >= 2
    /\ Base64Decode(Trim(deltaLogAtSettle[1])) # Base64Decode(Trim(deltaLogAtSettle[2]))

\* The status of a response.done frame is a non-blank string other than
\* "completed".
NonSuccessStatus(data) ==
    HasText(data.status) /\ Trim(data.status.chars) # << "completed" >>

\* C5 (as claimed): once response.done with status completed has been
\* delivered, a following session.finished leaves the session settled exactly
\* once, as success.
C5_DoneThenFinishedSucceeds ==
    [][ (seenDoneCompleted /\ Delivered("session.finished")) =>
            /\ outcome'.kind = "resolved"
            /\ resolveCalls' + rejectCalls' = 1 ]_vars

\* C5 (amended): when session.finished is delivered to a session that is still
\* unsettled, has received response.done with status completed and holds at
\* least one audio chunk, that step settles it, exactly once, as success.
C5_DoneThenFinishedSucceedsWithAudio ==
    [][ ( /\ ~settled
          /\ seenDoneCompleted
          /\ Len(audioChunks) > 0
          /\ Delivered("session.finished") ) =>
            /\ settled'
            /\ outcome'.kind = "resolved"
            /\ resolveCalls' + rejectCalls' = 1 ]_vars

\* C5 witness: delta, response.done completed, session.finished, success.
C5_Witness ==
    /\ seenDoneCompleted
    /\ settledBy.h = "message"
    /\ IsEvent(settledBy.data, "session.finished")
    /\ outcome.kind = "resolved"
    /\ Calls = 1

\* C6: session.finished delivered to an unsettled session that has not seen
\* response.done but holds at least one chunk settles it at that step as
\* success, closing with the clean code.
C6_FinishedFirstWithAudioSucceeds ==
    [][ ( /\ ~settled
          /\ ~hasResponseDone
          /\ Len(audioChunks) > 0
          /\ Delivered("session.finished") ) =>
            /\ settled'
            /\ ~hasResponseDone'
            /\ outcome'.kind = "resolved"
            /\ closeCalls' = << CloseNormal >> ]_vars

\* C6 witness: settled as success by session.finished with no response.done.
C6_Witness ==
    /\ settledBy.h = "message"
    /\ IsEvent(settledBy.data, "session.finished")
    /\ last = settledBy
    /\ ~hasResponseDone
    /\ outcome.kind = "resolved"

\* C7: response.done with a non-success status delivered to an unsettled
\* session settles it at that step as failure QWEN_TTS_FAILED whatever audio
\* it holds, and a failed session stays failed.
C7_FailedStatusFails ==
    [][ /\ ( /\ ~settled
             /\ Delivered("response.done")
             /\ NonSuccessStatus(last'.data) ) =>
               /\ settled'
               /\ outcome'.kind = "rejected"
               /\ outcome'.error.code = "QWEN_TTS_FAILED"
        /\ (outcome.kind = "rejected" => outcome' = outcome) ]_vars

\* C7 witness: failed by response.done status failed while holding audio, and
\* session.finished delivered afterwards.
C7_Witness ==
    /\ settledBy.h = "message"
    /\ IsEvent(settledBy.data, "response.done")
    /\ NonSuccessStatus(settledBy.data)
    /\ Len(deltaLogAtSettle) > 0
    /\ last.h = "message"
    /\ IsEvent(last.data, "session.finished")
    /\ outcome.kind = "rejected"
    /\ outcome.error.code = "QWEN_TTS_FAILED"

\* C8: when a response.done without non-success status or a session.finished
\* completes the pair of completion signals of an unsettled session that has
\* received no audio delta, that step settles it as failure
\* QWEN_TTS_INVALID_RESPONSE; no success is ever built from zero deltas.
C8_NoAudioFails ==
    [][ /\ ( /\ ~settled
             /\ deltaLog' = << >>
             /\ \/ Delivered("session.finished") /\ hasResponseDone
                \/ /\ Delivered("response.done")
                   /\ ~NonSuccessStatus(last'.data)
                   /\ hasSessionFinished ) =>
               /\ settled'
               /\ outcome'.kind = "rejected"
               /\ outcome'.error.code = "QWEN_TTS_INVALID_RESPONSE"
        /\ (outcome'.kind = "resolved" => Len(deltaLogAtSettle') > 0) ]_vars

\* C8 witness: session.finished first, then response.done completed, no delta.
C8_Witness ==
    /\ settledBy.h = "message"
    /\ IsEvent(settledBy.data, "response.done")
    /\ hasSessionFinished
    /\ deltaLogAtSettle = << >>
    /\ outcome.kind = "rejected"
    /\ outcome.error.code = "QWEN_TTS_INVALID_RESPONSE"

\* C9: the timer is armed exactly as long as the session is unsettled; when it
\* expires the session settles as failure QWEN_TTS_TIMEOUT (naming 45000 ms)
\* and ws.close(1011) is called; a settled session has its timer cleared, so
\* an expiry cannot affect it.
C9_TimeoutFails ==
    /\ [](settled <=> timeoutId = "cleared")
    /\ [][ (last'.h = "timeout" /\ timeoutId = "armed") =>
              /\ settled'
              /\ outcome'.kind = "rejected"
              /\ outcome'.error.code = "QWEN_TTS_TIMEOUT"
              /\ outcome'.error.detail = << timeoutMs >>
              /\ closeCalls' = << CloseInternalError >>
              /\ readyState' \in { "CLOSING", "CLOSED" } ]_vars

\* C9 witness: an open session holding audio is settled by the timer.
C9_Witness ==
    /\ settledBy.h = "timeout"
    /\ Len(audioChunks) > 0
    /\ outcome.kind = "rejected"
    /\ outcome.error.code = "QWEN_TTS_TIMEOUT"
    /\ closeCalls = << CloseInternalError >>

\* The session saw session.finished first, with no audio and no response.done.
C10_Waiting ==
    /\ ~settled
    /\ hasSessionFinished
    /\ ~hasResponseDone
    /\ audioChunks = << >>

\* C10: with the timer firing, every session eventually settles; a
\* session.finished delivered to an unsettled session with no audio and no
\* response.done does not settle it, and from that waiting state the session
\* still settles, as timeout failure when the timer is what ends the wait.
C10_EventuallySettles ==
    /\ <>settled
    /\ (C10_Waiting ~> settled)
    /\ [][ /\ ( /\ ~settled
                /\ ~hasResponseDone
                /\ audioChunks = << >>
                /\ Delivered("session.finished") ) =>
                  /\ ~settled'
                  /\ outcome' = Pending
                  /\ hasSessionFinished'
                  /\ timeoutId' = "armed"
           /\ (C10_Waiting /\ last'.h = "timeout") =>
                  /\ settled'
                  /\ outcome'.error.code = "QWEN_TTS_TIMEOUT" ]_vars

\* C10 witness: the wait after a lone session.finished was ended by the timer.
C10_Witness ==
    /\ settledBy.h = "timeout"
    /\ hasSessionFinished
    /\ ~hasResponseDone
    /\ audioChunks = << >>
    /\ outcome.error.code = "QWEN_TTS_TIMEOUT"

\* C11: the close event on an unsettled session settles it as success when it
\* holds at least one chunk and one of the completion flags is set, and in
\* every other case as failure QWEN_TTS_WS_CLOSED carrying the close code.
C11_CloseSettles ==
    [][ (last'.h = "close" /\ ~settled) =>
          /\ settled'
          /\ IF Len(audioChunks) > 0 /\ (hasResponseDone \/ hasSessionFinished)
             THEN outcome'.kind = "resolved"
             ELSE /\ outcome'.kind = "rejected"
                  /\ outcome'.error.code = "QWEN_TTS_WS_CLOSED"
                  /\ outcome'.error.detail[1] = last'.code ]_vars

\* C11 witness: session.finished came first, then audio, then the close event
\* settled the session as success.
C11_Witness ==
    /\ settledBy.h = "close"
    /\ hasSessionFinished
    /\ ~hasResponseDone
    /\ Len(audioChunks) > 0
    /\ outcome.kind = "resolved"

\* C12: an error event delivered to an unsettled session settles it as failure
\* QWEN_TTS_FAILED_WS carrying the provider's message or code when it gives
\* one, and a transport error settles it as failure QWEN_TTS_WS_ERROR, whatever
\* audio or completion flags the session holds.
C12_ErrorsFail ==
    [][ /\ (~settled /\ Delivered("error")) =>
              /\ settled'
              /\ outcome'.kind = "rejected"
              /\ outcome'.error.code = "QWEN_TTS_FAILED_WS"
              /\ HasText(last'.data.message) =>
                   outcome'.error.detail = Trim(last'.data.message.chars)
              /\ (~HasText(last'.data.message) /\ HasText(last'.data.code)) =>
                   outcome'.error.detail = Trim(last'.data.code.chars)
        /\ (~settled /\ last'.h = "error") =>
              /\ settled'
              /\ outcome'.kind = "rejected"
              /\ outcome'.error.code = "QWEN_TTS_WS_ERROR" ]_vars

\* C12 witness: an error event fails a session that holds audio and has seen
\* response.done.
C12_Witness ==
    /\ settledBy.h = "message"
    /\ IsEvent(settledBy.data, "error")
    /\ Len(deltaLogAtSettle) > 0
    /\ hasResponseDone
    /\ outcome.kind = "rejected"
    /\ outcome.error.code = "QWEN_TTS_FAILED_WS"

\* The frame cannot be parsed into an event: its text is empty, is not JSON,
\* is JSON but no object, or is an object without a type.
C13_Malformed(data) ==
    \/ Trim(decodeWsMessageToText(data)) = << >>
    \/ data.parsed # "record"
    \/ ~HasText(data.type)

C14_KnownTypes ==
    { << "error" >>, << "response.audio.delta" >>, << "response.done" >>,
      << "session.finished" >> }

\* C14: a parseable inbound event whose type is none of response.audio.delta,
\* response.done, session.finished, error is a no-op: it settles nothing and
\* leaves the accumulated audio, both completion flags, the outcome, the timer
\* and the connection as they were.
C14_UnknownTypeIsNoOp ==
    [][ ( /\ nRecv' = nRecv + 1
          /\ Trim(decodeWsMessageToText(last'.data)) # << >>
          /\ last'.data.parsed = "record"
          /\ HasText(last'.data.type)
          /\ Trim(last'.data.type.chars) \notin C14_KnownTypes ) =>
            UNCHANGED << settled, outcome, hasResponseDone, hasSessionFinished,
                         audioChunks, timeoutId, closeCalls, sent, readyState,
                         resolveCalls, rejectCalls >> ]_vars

\* C14 witness: an event of an unknown type has just arrived at an unsettled
\* session that holds audio and has seen response.done.
C14_Witness ==
    /\ last.h = "message"
    /\ last.data.parsed = "record"
    /\ HasText(last.data.type)
    /\ Trim(last.data.type.chars) \notin C14_KnownTypes
    /\ Trim(decodeWsMessageToText(last.data)) # << >>
    /\ ~settled
    /\ hasResponseDone
    /\ Len(audioChunks) > 0

\* Canonical base64: a whole number of 4-character groups over the alphabet,
\* with "=" only as the last one or two characters.
C15_ValidBase64(chars) ==
    /\ Len(chars) % 4 = 0
    /\ \A i \in 1..Len(chars) :
          \/ \E k \in 1..Len(B64Alphabet) : B64Alphabet[k] = chars[i]
          \/ chars[i] = "=" /\ i >= Len(chars) - 1
                            /\ \A j \in i..Len(chars) : chars[j] = "="

\* C15: a response.audio.delta event without its payload, or with a payload
\* that is not valid base64, settles an unsettled session as failure
\* QWEN_TTS_INVALID_EVENT and appends nothing to the accumulated audio.
C15_BadDeltaFails ==
    [][ ( /\ ~settled
          /\ Delivered("response.audio.delta")
          /\ \/ readOptionalString(last'.data.delta) = null
             \/ ~C15_ValidBase64(readOptionalString(last'.data.delta)) ) =>
            /\ settled'
            /\ outcome'.kind = "rejected"
            /\ outcome'.error.code = "QWEN_TTS_INVALID_EVENT"
            /\ audioChunks' = audioChunks ]_vars

\* The bytes are a container: "RIFF" at offset 0 and "WAVE" at offset 8.
IsContainer(bytes) ==
    /\ Len(bytes) >= 12
    /\ SubSeq(bytes, 1, 4) = TagRIFF
    /\ SubSeq(bytes, 9, 12) = TagWAVE

\* C16: every result the adapter returns, over the streaming session or over
\* the request/response call, carries a container; a reply whose inline audio
\* is InlineBytes raw bytes yields a WAV of InlineBytes + 44 bytes.
C16_ResultIsContainer ==
    outcome.kind = "resolved" =>
        /\ IsContainer(outcome.audioData)
        /\ (transport = "http" /\ response.data = Str(InlineRaw)) =>
              Len(outcome.audioData) = InlineBytes + 44

\* The id holds the word realtime, each letter in either case.
C17_NamesRealtime(modelId) ==
    \E i \in 0..(Len(modelId) - 8) :
       /\ modelId[i + 1] \in { "r", "R" }
       /\ modelId[i + 2] \in { "e", "E" }
       /\ modelId[i + 3] \in { "a", "A" }
       /\ modelId[i + 4] \in { "l", "L" }
       /\ modelId[i + 5] \in { "t", "T" }
       /\ modelId[i + 6] \in { "i", "I" }
       /\ modelId[i + 7] \in { "m", "M" }
       /\ modelId[i + 8] \in { "e", "E" }

\* C17: once the adapter has chosen, the transport is the streaming session
\* exactly when the model id holds 'realtime' in any letter case; for every
\* other id exactly one synthesis request has been posted and no streaming
\* session exists: no socket, no timer, nothing sent or received on one.
C17_TransportByModelId ==
    pc # "start" =>
        /\ transport = "realtime" <=> C17_NamesRealtime(params.modelId)
        /\ transport # "realtime" =>
              /\ transport = "http"
              /\ Len(SelectSeq(io, LAMBDA c : c = "POST")) = 1
              /\ Len(SelectSeq(io, LAMBDA c : c = "WebSocket")) = 0
              /\ readyState = "none"
              /\ timeoutId = "none"
              /\ sent = << >>
              /\ nRecv = 0
        /\ transport = "realtime" =>
              /\ Len(SelectSeq(io, LAMBDA c : c = "POST")) = 0
              /\ Len(SelectSeq(io, LAMBDA c : c = "GET")) = 0

\* C17 witness: a model id that spells RealTime in mixed case got a streaming
\* session, which succeeded.
C17_Witness ==
    /\ params.modelId = RealtimeMixed
    /\ transport = "realtime"
    /\ io = << "WebSocket" >>
    /\ outcome.kind = "resolved"

\* The reply carries neither inline audio nor an audio URL.
C18_NoAudio(r) ==
    ~ /\ r.parsed = "record"
      /\ r.output = "record"
      /\ \/ r.audio = "record" /\ (HasText(r.data) \/ HasText(r.url))
         \/ HasText(r.audio_url)

\* C18: on the request/response path a reply with a status outside 200..299
\* ends in failure QWEN_TTS_FAILED, a success reply with neither inline audio
\* nor an audio URL in failure QWEN_TTS_INVALID_RESPONSE, and a download that
\* fails or is answered with a status outside 200..299 in failure
\* (QWEN_TTS_AUDIO_DOWNLOAD_FAILED for the status); none returns a result.
C18_HttpFailures ==
    /\ (pc \in { "download", "returned" } /\ transport = "http"
          /\ ~response.threw /\ response.status \notin 200..299) =>
            /\ pc = "returned"
            /\ outcome.kind = "rejected"
            /\ outcome.error.code = "QWEN_TTS_FAILED"
    /\ (pc \in { "download", "returned" } /\ transport = "http"
          /\ ~response.threw /\ response.status \in 200..299
          /\ C18_NoAudio(response)) =>
            /\ pc = "returned"
            /\ outcome.kind = "rejected"
            /\ outcome.error.code = "QWEN_TTS_INVALID_RESPONSE"
    /\ (pc = "returned" /\ "GET" \in { io[i] : i \in 1..Len(io) }
          /\ (audioResponse.threw \/ audioResponse.status \notin 200..299)) =>
            /\ outcome.kind = "rejected"
            /\ audioResponse.threw
                 \/ outcome.error.code = "QWEN_TTS_AUDIO_DOWNLOAD_FAILED"

\* C18 witness: a reply with status 400 that carries inline audio has failed.
C18_Witness ==
    /\ pc = "returned"
    /\ transport = "http"
    /\ response.status = 400
    /\ HasText(response.data)
    /\ outcome.kind = "rejected"
    /\ outcome.error.code = "QWEN_TTS_FAILED"

\* The bytes the two deltas of the script stand for: silence, then the
\* repeating bytes of the sextet 1.
C19_Pcm ==
    [i \in 1..FirstDeltaBytes |-> 0]
    \o [i \in 1..SecondDeltaBytes |-> << 4, 16, 65 >>[((i - 1) % 3) + 1]]

\* C19: a session that opened and sent its 4 events, then received the two
\* deltas, response.done(completed) and session.finished with nothing else
\* settling it before, is settled as success: a WAV of 44 bytes of header and
\* the bytes of both deltas in order, sample rate 24000, and its duration in
\* ms; for deltas of 4800 and 3200 bytes that is 8044 bytes and 167 ms.
C19_ScriptSucceeds ==
    ( /\ nRecv = Len(Script)
      /\ Len(sent) = 4
      /\ settled => (settledBy.h = "message" /\ settledBy.data = Script[4]) ) =>
        /\ settled
        /\ outcome.kind = "resolved"
        /\ resolveCalls = 1 /\ rejectCalls = 0
        /\ Len(outcome.audioData) = 44 + FirstDeltaBytes + SecondDeltaBytes
        /\ SubSeq(outcome.audioData, 1, 4) = TagRIFF
        /\ SubSeq(outcome.audioData, 9, 12) = TagWAVE
        /\ readUInt32LE(outcome.audioData, 24) = 24000
        /\ SubSeq(outcome.audioData, 45, Len(outcome.audioData)) = C19_Pcm
        /\ outcome.audioDuration
             = RoundDiv((FirstDeltaBytes + SecondDeltaBytes) * 1000, 48000)
        /\ (FirstDeltaBytes = 4800 /\ SecondDeltaBytes = 3200) =>
              /\ Len(outcome.audioData) = 8044
              /\ outcome.audioDuration = 167

\* C19 witness: the whole script was delivered to an open session that had
\* sent its 4 events, and session.finished settled it as success.
C19_Witness ==
    /\ nRecv = Len(Script)
    /\ Len(sent) = 4
    /\ settledBy.h = "message"
    /\ settledBy.data = Script[4]
    /\ Len(deltaLogAtSettle) = 2
    /\ outcome.kind = "resolved"

\* C20: normalizeQwenAudioToWav returns its input unchanged when the input
\* begins with RIFF at offset 0 and WAVE at offset 8 and the wrapped input
\* otherwise, so that its result is always a container and a second call
\* returns the result of the first.
C20_NormalizeWrapsUnlessContainer ==
    [][ wav'.calls = Append(wav.calls, "normalizeQwenAudioToWav") =>
          /\ wav'.buffer = IF IsContainer(wav.buffer)
                           THEN wav.buffer
                           ELSE wrapPcm16MonoToWav(wav.buffer, wav.rate)
          /\ IsContainer(wav'.buffer)
          /\ normalizeQwenAudioToWav(wav'.buffer, wav.rate) = wav'.buffer ]_vars

\* The step is a call of the function `name`.
Called(name) == wav'.calls = Append(wav.calls, name)

\* C21: wrapPcm16MonoToWav(p, sr) is 44 + len(p) bytes long, begins with
\* RIFF/WAVE and declares 36 + len(p) at offset 4 and len(p) at offset 40; the
\* duration computed from it is len(p) / (sr * 2) * 1000 ms to within one
\* millisecond, for the empty p too.
C21_WrapLayoutAndDuration ==
    [][ /\ Called("wrapPcm16MonoToWav") =>
            /\ Len(wav'.buffer) = 44 + Len(wav.buffer)
            /\ IsContainer(wav'.buffer)
            /\ readUInt32LE(wav'.buffer, 4) = 36 + Len(wav.buffer)
            /\ readUInt32LE(wav'.buffer, 40) = Len(wav.buffer)
            /\ SubSeq(wav'.buffer, 45, Len(wav'.buffer)) = wav.buffer
        /\ ( /\ Called("getWavDurationFromBuffer")
             /\ Len(wav.calls) > 0
             /\ wav.calls[Len(wav.calls)] = "wrapPcm16MonoToWav" ) =>
               LET exactTimesRate == Len(wav.before) * 1000
                   rated == wav'.duration * wav.rate * 2
               IN  /\ rated <= exactTimesRate + wav.rate * 2
                   /\ rated >= exactTimesRate - wav.rate * 2 ]_vars

RECURSIVE C22_DataChunkAt(_, _)
\* The offset of the first chunk named "data" among the chunks that lie whole
\* headers inside the buffer from `offset` on; -1 when there is none.
C22_DataChunkAt(buffer, offset) ==
    IF offset + 8 > Len(buffer) THEN -1
    ELSE IF SubSeq(buffer, offset + 1, offset + 4) = TagData THEN offset
    ELSE C22_DataChunkAt(buffer, offset + 8 + readUInt32LE(buffer, offset + 4))

\* The cases in which no duration can be read from a header: no RIFF/WAVE
\* container, too short to hold the byte rate, no data chunk, zero byte rate.
C22_Unreadable(buffer) ==
    \/ ~IsContainer(buffer)
    \/ Len(buffer) < 32
    \/ C22_DataChunkAt(buffer, 12) = -1
    \/ readUInt32LE(buffer, 28) = 0

\* C22: getWavDurationFromBuffer returns a non-negative integer for every
\* buffer: round(length * 8 / 128) when the buffer is no RIFF/WAVE container,
\* is truncated, has no data chunk or has a zero byte rate, and
\* round(dataChunkSize / byteRate * 1000) otherwise.
C22_DurationByHeaderOrFallback ==
    [][ Called("getWavDurationFromBuffer") =>
          /\ wav'.duration \in Nat
          /\ wav'.duration =
               IF C22_Unreadable(wav.buffer)
               THEN RoundDiv(Len(wav.buffer) * 8, 128)
               ELSE RoundDiv(readUInt32LE(wav.buffer, C22_DataChunkAt(wav.buffer, 12) + 4) * 1000,
                             readUInt32LE(wav.buffer, 28)) ]_vars

\* C23: classify maps every task kind to exactly one queue: the image, video
\* or voice queue exactly for the kinds of the image, video or voice set, the
\* text queue for every other kind; the three sets are pairwise disjoint.
C23_ClassifyTotal ==
    /\ IMAGE_TYPES \cap VIDEO_TYPES = {}
    /\ IMAGE_TYPES \cap VOICE_TYPES = {}
    /\ VIDEO_TYPES \cap VOICE_TYPES = {}
    /\ \A q \in QueueNames, id \in TaskIds :
         mq.jobs[q][id].state # "none" =>
            /\ (q = imageQueue) <=> (mq.jobs[q][id].data.type \in IMAGE_TYPES)
            /\ (q = videoQueue) <=> (mq.jobs[q][id].data.type \in VIDEO_TYPES)
            /\ (q = voiceQueue) <=> (mq.jobs[q][id].data.type \in VOICE_TYPES)
            /\ (q = textQueue) <=>
                  (mq.jobs[q][id].data.type \notin IMAGE_TYPES \cup VIDEO_TYPES \cup VOICE_TYPES)
            /\ \A o \in QueueNames \ { q } : mq.jobs[o][id].state = "none"

\* A task of a kind of no set waits in the text queue beside a voice-design task.
C23_Witness ==
    \E a, b \in TaskIds :
        /\ mq.jobs[textQueue][a].state = "waiting"
        /\ mq.jobs[textQueue][a].data.type \in UnlistedTypes
        /\ mq.jobs[voiceQueue][b].state = "waiting"
        /\ mq.jobs[voiceQueue][b].data.type = "VOICE_DESIGN"

C25_AtMostFiveAttempts ==
    [][ \A q \in QueueNames, id \in TaskIds :
          /\ mq'.jobs[q][id].started <= 5
          /\ (mq.jobs[q][id].state = "active" /\ mq.jobs[q][id].started = 5) =>
                mq'.jobs[q][id].state \in { "active", "completed", "failed" }
          /\ mq.jobs[q][id].state = "failed" => mq'.jobs[q][id].state \in { "failed", "none" }
          /\ mq'.jobs[q][id].state = "failed" =>
                mq'.jobs[q][id].attemptsMade = 5 /\ mq'.jobs[q][id].started = 5
          /\ (mq.jobs[q][id].state = "active" /\ mq.jobs[q][id].started < 5) =>
                mq'.jobs[q][id].state # "failed" ]_vars

\* The fifth attempt of a job failed.
C25_Witness ==
    \E q \in QueueNames, id \in TaskIds :
        mq.jobs[q][id].state = "failed" /\ mq.jobs[q][id].started = 5

\* The delay before attempt n + 1, in ms.
C26_DelayBefore(n) == CASE n = 1 -> 2000 [] n = 2 -> 4000 [] n = 3 -> 8000 [] n = 4 -> 16000

\* C26: the delays before attempts 2, 3, 4 and 5 are 2000, 4000, 8000 and
\* 16000 ms, and a failed job is not started again before that much time has
\* passed since its failure.
C26_ExponentialBackoff ==
    [][ \A q \in QueueNames, id \in TaskIds :
          /\ (mq.jobs[q][id].state = "active" /\ mq'.jobs[q][id].state = "delayed") =>
                /\ mq'.jobs[q][id].attemptsMade \in 1..4
                /\ mq'.jobs[q][id].delay = C26_DelayBefore(mq'.jobs[q][id].attemptsMade)
                /\ mq'.jobs[q][id].left = mq'.jobs[q][id].delay
          /\ (mq.jobs[q][id].state = "delayed" /\ mq'.jobs[q][id].state = "active") =>
                mq.jobs[q][id].delay - mq.jobs[q][id].left
                   >= C26_DelayBefore(mq.jobs[q][id].attemptsMade) ]_vars

\* The fifth attempt of a job runs, 16000 ms after the fourth failed.
C26_Witness ==
    \E q \in QueueNames, id \in TaskIds :
        /\ mq.jobs[q][id].state = "active"
        /\ mq.jobs[q][id].started = 5
        /\ mq.jobs[q][id].delay = 16000

\* C28: removeTaskJob returns true exactly when some queue held a job of that
\* id, and then no queue holds it; it returns false exactly when no queue
\* held one, and then every queue is as it was.
C28_RemoveExactly ==
    [][ mq'.call.op = "removeTaskJob" =>
          LET held == \E q \in QueueNames : mq.jobs[q][mq'.call.arg].state # "none" IN
          /\ (mq'.call.value = "true") <=> held
          /\ mq'.call.value = "true" =>
                \A q \in QueueNames : mq'.jobs[q][mq'.call.arg].state = "none"
          /\ (mq'.call.value = "false") <=> ~ held
          /\ mq'.call.value = "false" => mq'.jobs = mq.jobs ]_vars

\* C27: the jobs in flight in a queue never exceed the concurrency configured
\* for it, 10 for the voice queue and 20 for the image queue when none is
\* configured, whatever the load of the other queue.
C27_InFlightWithinLimit ==
    /\ pool.env.voice = << >> => pool.active.voice <= 10
    /\ pool.env.image = << >> => pool.active.image <= 20
    /\ pool.env.voice = << "2" >> => pool.active.voice <= 2
    /\ pool.env.voice = << " ", "4" >> => pool.active.voice <= 4
    /\ pool.env.image = << "+", "1", "2" >> => pool.active.image <= 12

\* Both queues run at their default limits with a job waiting in each.
C27_Witness ==
    /\ pool.env.voice = << >> /\ pool.active.voice = 10 /\ pool.waiting.voice > 0
    /\ pool.env.image = << >> /\ pool.active.image = 20 /\ pool.waiting.image > 0

\* Where a job stands after the progress event of a stage.
C29_After(stage) ==
    CASE stage = "received" -> "switch"
      [] stage = "generate_voice_submit" -> "generate"
      [] stage = "generate_voice_persist" -> "returned"
      [] stage = "voice_design_submit" -> "assert"
      [] stage = "voice_design_done" -> "returned"

\* C29: the first thing a job does in a worker is to emit the progress event
\* (5, received): it precedes the invocation of the handler of the job's type
\* and every other progress event; and a progress event alters no control
\* flow: the step that emits it raises nothing, finalizes nothing and goes on
\* to the statement after it, cancelled or not.
C29_ReceivedFirst ==
    [][ /\ run'.pc # "queued" =>
              /\ run'.events # << >>
              /\ run'.events[1] = Progress(5, "received")
              /\ \A i \in 2..Len(run'.events) : run'.events[i] # Progress(5, "received")
        /\ (Len(run'.events) = Len(run.events) + 1
               /\ run'.events[Len(run'.events)].kind = "progress") =>
              /\ run'.error = "none"
              /\ run'.final = "none"
              /\ run'.cancelled = run.cancelled
              /\ run'.pc = C29_After(run'.events[Len(run'.events)].stage) ]_vars

\* A cancelled voice-line job emitted its events in order, received first.
C29_Witness ==
    /\ run.cancelled
    /\ run.events = << Progress(5, "received"), Invoked("handleVoiceLineTask"),
                       Progress(20, "generate_voice_submit"),
                       Progress(95, "generate_voice_persist") >>

\* C30: the handler of a voice-line or voice-design job reads the job's
\* cancellation flag at some checkpoint before the job succeeds, and a job
\* found cancelled at a checkpoint is finalized as cancelled; so no job that
\* was cancelled before its handler's last checkpoint is finalized as succeeded.
C30_CancelCheckpoint ==
    /\ (run.pc # "none" /\ run.worker = "voice" /\ run.type \in VOICE_TYPES
           /\ run.final = "succeeded") =>
          \E i \in 1..Len(run.events) : run.events[i].kind = "cancelled?"
    /\ (run.pc # "none" /\ run.error = "cancelled" /\ run.final # "none") =>
          run.final = "cancelled"

\* C31: the broker connection of the dispatcher is made at most once in a
\* process, however often the connection module is evaluated, and the four
\* queues of every evaluation of the queues module and every worker are given
\* that one connection.
C31_OneQueueConnection ==
    conn.pc = "process" =>
        /\ Cardinality(conn.queueClients) <= 1
        /\ \A i \in 1..Len(conn.modules) : conn.modules[i].queueConnection \in conn.queueClients
        /\ \A i \in 1..Len(conn.queues), q \in QueueNames :
              conn.queues[i].connection[q] = conn.global.queue
        /\ \A i \in 1..Len(conn.workers) : conn.workers[i].connection = conn.global.queue

\* The connection module was evaluated three times; queues were made against
\* the first evaluation and workers of both kinds against the third.
C31_Witness ==
    /\ conn.pc = "process"
    /\ Len(conn.modules) = 3
    /\ \E i \in 1..Len(conn.queues) : conn.queues[i].module = 1
    /\ \E i, j \in 1..Len(conn.workers) :
         /\ conn.workers[i].name = "voice" /\ conn.workers[i].module = 3
         /\ conn.workers[j].name = "image" /\ conn.workers[j].module = 3

\* C32: the step that settles a session as success leaves at least one audio
\* chunk accumulated and response.done or session.finished received; a
\* session that holds audio and meets an error event, a non-success
\* response.done, a socket error, the timeout, or a close before any
\* completion signal is settled as failure, and a failure is never replaced
\* by a result.
C32_SuccessNeedsAudioAndCompletion ==
    [][ /\ (~settled /\ outcome'.kind = "resolved") =>
              /\ Len(audioChunks') > 0
              /\ hasResponseDone' \/ hasSessionFinished'
        /\ ( /\ ~settled
             /\ Len(audioChunks) > 0
             /\ \/ Delivered("error")
                \/ Delivered("response.done") /\ NonSuccessStatus(last'.data)
                \/ last'.h \in { "error", "timeout" }
                \/ last'.h = "close" /\ ~(hasResponseDone \/ hasSessionFinished) ) =>
              outcome'.kind = "rejected"
        /\ outcome.kind = "rejected" => outcome' = outcome ]_vars

\* A session that held audio and had seen response.done was ended by a socket
\* error, as failure.
C32_Witness ==
    /\ settledBy.h = "error"
    /\ Len(audioChunks) > 0
    /\ hasResponseDone
    /\ outcome.kind = "rejected"

\* C33: routing and the workers' switches agree: a job in the worker of the
\* queue that getQueueTypeByTaskType gives for its kind, voice or image, is
\* given to a handler by the switch and never fails as unsupported.
C33_RoutedKindsAreHandled ==
    (run.pc # "none" /\ getQueueTypeByTaskType(run.type) = run.worker) =>
        /\ run.error # "unsupported"
        /\ run.pc \notin { "queued", "switch" } =>
              \E i \in 1..Len(run.events) : run.events[i].kind = "handler"

\* An asset-hub voice design went through the voice worker's switch to its
\* handler and succeeded.
C33_Witness ==
    /\ run.pc = "done"
    /\ run.worker = "voice"
    /\ run.type = "ASSET_HUB_VOICE_DESIGN"
    /\ run.events[2] = Invoked("handleVoiceDesignTask")
    /\ run.final = "succeeded"

\* The family each model id names.
C38_Family(modelId) ==
    IF modelId \in { Str(ModelVd), Str(ModelVdSpaced) } THEN "vd"
    ELSE IF modelId = Str(ModelVcMixed) THEN "vc"
    ELSE "null"

\* A non-empty trimmed id without the prefix of a family.
C38_Plain(v) ==
    /\ v.isString
    /\ v.chars # << >>
    /\ Head(v.chars) # " " /\ v.chars[Len(v.chars)] # " "
    /\ ~ startsWith(v.chars, PrefixVd) /\ ~ startsWith(v.chars, PrefixVc)

\* C38: a non-empty trimmed voice id v without vd: or vc: prefix, encoded
\* with a model id of family f and then parsed, gives { voiceId: v, family: f };
\* and encoding is idempotent: encoding the result of an encoding once more,
\* with the same model id or, when the result carries a prefix, with any
\* model id, returns it unchanged.
C38_EncodeParseRoundTrip ==
    cfg.pc = "voice" =>
        /\ ( /\ C38_Plain(cfg.v)
             /\ cfg.encodes = 1
             /\ cfg.parsedAt = 1
             /\ C38_Family(cfg.first) # "null" ) =>
               cfg.parsed = ParsedVoiceId(cfg.v.chars, C38_Family(cfg.first))
        /\ ( /\ cfg.encodes = 2
             /\ \/ cfg.modelId = cfg.first
                \/ startsWith(cfg.afterFirst.chars, PrefixVd)
                \/ startsWith(cfg.afterFirst.chars, PrefixVc) ) =>
               cfg.id = cfg.afterFirst

\* "my-tts-vc" was encoded with "q-tts-vd" and parsed back to itself with
\* family vd.
C38_Witness ==
    /\ cfg.pc = "voice"
    /\ cfg.v = Str(<< "m", "y", "-", "t", "t", "s", "-", "v", "c" >>)
    /\ cfg.first = Str(ModelVd)
    /\ cfg.encodes = 1
    /\ cfg.parsed = ParsedVoiceId(cfg.v.chars, "vd")

\* C34: generateVoiceLine writes the voice-line record only after the
\* synthesis, the upload and the cancellation check, made in that order, have
\* each passed; a call in which one of them fails writes nothing and returns
\* no result.
C34_InOrder ==
    /\ run.written => run.did = << "synthesis", "upload", "check", "update" >>
    /\ run.pc = "thrown" => ~ run.written
    /\ run.pc = "persist" => run.written

C34_WriteAfterAllPassed ==
    /\ []C34_InOrder
    /\ [][run.pc = "check" /\ run.checkCancelled /\ run.cancelled
            => run'.pc = "thrown" /\ ~ run'.written]_vars

C34_Witness ==
    /\ run.pc = "persist"
    /\ run.written
    /\ run.checkCancelled
    /\ \E i \in 1..Len(run.events) : run.events[i] = Queried("generateVoiceLine")

\* The family a stored voice id carries as its prefix, and the family of an
\* audio model of the configurations.
C35_Carried ==
    IF cfg.characterVoiceId = Str(<< "v", "d", ":", "x" >>) THEN "vd"
    ELSE IF cfg.characterVoiceId = Absent /\ cfg.speakerVoiceId # Absent THEN "vc"
    ELSE "null"

C35_FamilyOf(model) ==
    IF model \in { QwenVd, QwenVd2, OtherVd } THEN "vd"
    ELSE IF model = QwenVc THEN "vc" ELSE "null"

\* The model the caller asked for, when there is one and it is enabled.
C35_Asked ==
    { model \in cfg.enabled : cfg.audioModel.isString
                              /\ model.modelKey = << cfg.audioModel.chars[Len(cfg.audioModel.chars)] >> }

C35_Matching == { model \in cfg.enabled : C35_FamilyOf(model) = C35_Carried }

C35_Called == \E i \in 1..Len(run.did) : run.did[i] = "synthesis"

C35_EndsIn(code) == run.error = code /\ ~ C35_Called

C36_StoredUnderTaskId ==
    [][ (mq'.call.op = "addTaskJob" /\ mq'.jobs # mq.jobs) =>
          /\ \A q \in QueueNames, id \in TaskIds :
                mq'.jobs[q][id] # mq.jobs[q][id] =>
                  /\ id = mq'.call.arg
                  /\ mq'.jobs[q][id].data.taskId = id
                  /\ ~ mq'.call.opts.hasPriority => mq'.jobs[q][id].priority = 0
          /\ removeTaskJob(mq'.jobs, mq'.call.arg).value = "true" ]_vars

\* The submissions that were handed off to task state and cover the line.
C37_HandedOff(u, lineId) ==
    \/ u.line[lineId] = "handedOff"
    \/ u.all = "handedOff" /\ lineId \in u.lineIds

\* C37: under any interleaving of a single-line and a batch submission, a
\* line id is out of the submitting set when a submission that covers it ends
\* without hand-off, and is in the set as long as a submission that covers it
\* was handed off to task state.
C37_SubmittingFollowsHandOff ==
    /\ [](\A lineId \in LineIds : C37_HandedOff(ui, lineId) => lineId \in ui.submitting)
    /\ [][\A lineId \in LineIds :
            /\ (ui.line[lineId] = "pending" /\ ui'.line[lineId] = "ended") =>
                  lineId \notin ui'.submitting
            /\ (ui.all = "pending" /\ ui'.all = "ended" /\ lineId \in ui.lineIds) =>
                  lineId \notin ui'.submitting]_vars

====
